---- MODULE Spec2Model ----
(***************************************************************************)
(* A model of user_agent/base.py: the constraint solver                    *)
(* (get_option_choices, pick_config_ids), the build selectors              *)
(* (get_firefox_build, get_chrome_build, get_ie_build), the component      *)
(* assembler (build_system_components, build_app_components), the template *)
(* renderer and the three public generate_* functions.                     *)
(*                                                                         *)
(* Python strings are TLA+ strings; Python lists and tuples are sequences.  *)
(* The process-wide random source is a tape: the sequence of outcomes of   *)
(* the draws of one call, consumed from the front.  Every sampling         *)
(* function takes the tape and returns its value with the rest of the tape.*)
(***************************************************************************)
EXTENDS Integers, Sequences, FiniteSets, TLC

VARIABLES
    catalogs, \* the module's dicts, which every function reads
    fn,       \* the function called last ("" before the first call)
    args,     \* its arguments, as the caller passed them
    filters,  \* the caller's filter objects as they are after that call
    tape,     \* the outcomes the random source gave during that call
    result,   \* what the call returned or raised: [exc, val, rest]
    warnings  \* the notices warn() emitted during that call

vars == <<catalogs, fn, args, filters, tape, result, warnings>>

(***************************************************************************)
(* Bounds of the model.                                                    *)
(***************************************************************************)
\* A table with at most SmallTable entries is drawn from exhaustively.
SmallTable == 4
\* A longer table or integer range is drawn from at MaxDraw of its values:
\* the first ones and the last ones, half each (one more of the first when
\* MaxDraw is odd).
MaxDraw == 2

(***************************************************************************)
(* Python values and string methods.                                       *)
(***************************************************************************)
\* Python's None where a field holds either None or a string.
None == "<None>"

\* max(a, b)
Max(a, b) == IF a >= b THEN a ELSE b

\* s.startswith(p)
StartsWith(s, p) == Len(s) >= Len(p) /\ SubSeq(s, 1, Len(p)) = p

\* s.find(sub) + 1: the 1-based place of the first occurrence, 0 when none.
Find(s, sub) ==
    LET hits == {i \in 1..(Len(s) - Len(sub) + 1) : SubSeq(s, i, i + Len(sub) - 1) = sub}
    IN IF hits = {} THEN 0 ELSE CHOOSE i \in hits : \A j \in hits : i <= j

\* sub in s
Contains(s, sub) == Find(s, sub) # 0

\* s.split(sep, maxsplit): at most maxsplit cuts, from the left;
\* maxsplit = -1 cuts at every occurrence.
RECURSIVE Split(_, _, _)
Split(s, sep, maxsplit) ==
    LET i == Find(s, sep)
    IN IF maxsplit = 0 \/ i = 0
       THEN <<s>>
       ELSE <<SubSeq(s, 1, i - 1)>>
            \o Split(SubSeq(s, i + Len(sep), Len(s)), sep, maxsplit - 1)

\* s.replace(old, new), old a single character.
RECURSIVE Replace(_, _, _)
Replace(s, old, new) ==
    IF s = "" THEN ""
    ELSE (IF SubSeq(s, 1, 1) = old THEN new ELSE SubSeq(s, 1, 1))
         \o Replace(SubSeq(s, 2, Len(s)), old, new)

Digits == <<"0", "1", "2", "3", "4", "5", "6", "7", "8", "9">>

\* str(n) and "%d" % n, for n >= 0.
RECURSIVE Str(_)
Str(n) == IF n < 10 THEN Digits[n + 1] ELSE Str(n \div 10) \o Digits[(n % 10) + 1]

\* "%02d" % n as strftime pads its fields: the last w digits, zero-filled.
RECURSIVE Pad(_, _)
Pad(n, w) == IF w = 0 THEN "" ELSE Pad(n \div 10, w - 1) \o Digits[(n % 10) + 1]

IsDigit(c) == \E i \in 1..10 : Digits[i] = c

\* list.index(x) + 1: the place of the first element equal to x (x is in seq).
Index(seq, x) == CHOOSE i \in 1..Len(seq) : seq[i] = x /\ \A j \in 1..(i - 1) : seq[j] # x

\* x in seq
In(x, seq) == \E i \in 1..Len(seq) : seq[i] = x

(***************************************************************************)
(* datetime and timedelta: a datetime is its proleptic Gregorian ordinal   *)
(* (date.toordinal) and its second of the day, a timedelta is a number of  *)
(* seconds.                                                                *)
(***************************************************************************)
SecondsPerDay == 86400

is_leap(y) == y % 4 = 0 /\ (y % 100 # 0 \/ y % 400 = 0)

days_before_year(y) == (y - 1) * 365 + (y - 1) \div 4 - (y - 1) \div 100 + (y - 1) \div 400

days_in_month(y, m) ==
    IF m = 2 THEN (IF is_leap(y) THEN 29 ELSE 28)
    ELSE IF m \in {4, 6, 9, 11} THEN 30 ELSE 31

RECURSIVE days_before_month(_, _)
days_before_month(y, m) ==
    IF m = 1 THEN 0 ELSE days_before_month(y, m - 1) + days_in_month(y, m - 1)

\* datetime(y, m, d)
datetime(y, m, d) == [ord |-> days_before_year(y) + days_before_month(y, m) + d, sec |-> 0]

\* dt + timedelta(seconds=n), n >= 0
AddSeconds(dt, n) ==
    [ord |-> dt.ord + (dt.sec + n) \div SecondsPerDay, sec |-> (dt.sec + n) % SecondsPerDay]

\* (a - b).total_seconds()
total_seconds(a, b) == (a.ord - b.ord) * SecondsPerDay + (a.sec - b.sec)

\* dt.year, dt.month, dt.day
YearOf(dt) ==
    CHOOSE y \in (dt.ord \div 366)..(dt.ord \div 365 + 1) :
        days_before_year(y) < dt.ord /\ dt.ord <= days_before_year(y + 1)

MonthOf(dt) ==
    LET y == YearOf(dt)
        n == dt.ord - days_before_year(y)
    IN CHOOSE m \in 1..12 :
        days_before_month(y, m) < n /\ n <= days_before_month(y, m) + days_in_month(y, m)

DayOf(dt) == dt.ord - days_before_year(YearOf(dt)) - days_before_month(YearOf(dt), MonthOf(dt))

\* dt.strftime("%Y%m%d%H%M%S")
strftime(dt) ==
    Pad(YearOf(dt), 4) \o Pad(MonthOf(dt), 2) \o Pad(DayOf(dt), 2)
    \o Pad(dt.sec \div 3600, 2) \o Pad((dt.sec % 3600) \div 60, 2) \o Pad(dt.sec % 60, 2)

(***************************************************************************)
(* The catalogs and the compatibility matrices.  A dict is a record (or,   *)
(* where its keys are no identifiers, a sequence of rows) together with    *)
(* the sequence of its keys in insertion order, which is what              *)
(* list(d.keys()) returns.                                                 *)
(***************************************************************************)
\* DEVICE_TYPE_OS with android added to the desktop's systems, and to no
\* other table.
DEVICE_TYPE_OS_desktop_android ==
    [desktop |-> <<"win", "mac", "linux", "android">>,
     smartphone |-> <<"android">>,
     tablet |-> <<"android">>]

DEVICE_TYPE_OS == catalogs.DEVICE_TYPE_OS
DEVICE_TYPE_OS_keys == catalogs.DEVICE_TYPE_OS_keys
OS_DEVICE_TYPE == catalogs.OS_DEVICE_TYPE
DEVICE_TYPE_NAVIGATOR == catalogs.DEVICE_TYPE_NAVIGATOR
NAVIGATOR_DEVICE_TYPE == catalogs.NAVIGATOR_DEVICE_TYPE
OS_PLATFORM == catalogs.OS_PLATFORM
OS_PLATFORM_keys == catalogs.OS_PLATFORM_keys
OS_CPU == catalogs.OS_CPU
OS_CPU_keys == catalogs.OS_CPU_keys
OS_NAVIGATOR == catalogs.OS_NAVIGATOR
OS_NAVIGATOR_keys == catalogs.OS_NAVIGATOR_keys
NAVIGATOR_OS == catalogs.NAVIGATOR_OS
NAVIGATOR_OS_keys == catalogs.NAVIGATOR_OS_keys
\* Rows (version, year, month, day) of the release date datetime(year, month, day).
FIREFOX_VERSION == <<
    <<"0.9", 2004, 6, 28>>, <<"0.9.3", 2004, 8, 4>>, <<"0.10", 2004, 9, 14>>,
    <<"0.10.1", 2004, 9, 14>>, <<"1.0.1", 2005, 2, 24>>, <<"1.0.2", 2005, 3, 23>>,
    <<"1.0.3", 2005, 4, 15>>, <<"1.0.4", 2005, 5, 11>>, <<"1.0.5", 2005, 7, 12>>,
    <<"1.0.6", 2005, 7, 19>>, <<"1.0.7", 2005, 9, 20>>, <<"1.0.8", 2006, 4, 13>>,
    <<"1.5.0.1", 2006, 2, 1>>, <<"1.5.0.2", 2006, 4, 13>>, <<"1.5.0.3", 2006, 5, 2>>,
    <<"1.5.0.4", 2006, 6, 1>>, <<"1.5.0.5", 2006, 7, 27>>, <<"1.5.0.6", 2006, 8, 2>>,
    <<"1.5.0.7", 2006, 9, 14>>, <<"1.5.0.8", 2006, 11, 7>>, <<"1.5.0.9", 2007, 3, 20>>,
    <<"2.0.0.1", 2006, 12, 19>>, <<"2.0.0.2", 2007, 2, 23>>, <<"2.0.0.3", 2007, 3, 20>>,
    <<"2.0.0.4", 2007, 5, 30>>, <<"2.0.0.5", 2007, 7, 17>>, <<"2.0.0.6", 2007, 7, 30>>,
    <<"2.0.0.7", 2007, 9, 18>>, <<"2.0.0.8", 2007, 10, 18>>, <<"2.0.0.9", 2007, 11, 1>>,
    <<"2.0.0.11", 2007, 11, 30>>, <<"2.0.0.12", 2008, 2, 7>>, <<"2.0.0.13", 2008, 3, 25>>,
    <<"2.0.0.14", 2008, 4, 16>>, <<"2.0.0.15", 2008, 7, 1>>, <<"2.0.0.16", 2008, 7, 15>>,
    <<"2.0.0.17", 2008, 9, 23>>, <<"2.0.0.18", 2008, 11, 12>>, <<"2.0.0.19", 2008, 12, 16>>,
    <<"3.0.1", 2008, 7, 16>>, <<"3.0.2", 2008, 9, 23>>, <<"3.0.3", 2008, 9, 26>>,
    <<"3.0.4", 2008, 11, 12>>, <<"3.0.5", 2008, 12, 16>>, <<"3.0.6", 2009, 2, 3>>,
    <<"3.0.7", 2009, 3, 4>>, <<"3.0.8", 2009, 3, 27>>, <<"3.0.9", 2009, 4, 21>>,
    <<"3.0.10", 2009, 4, 27>>, <<"3.0.11", 2009, 6, 11>>, <<"3.0.12", 2009, 7, 21>>,
    <<"3.0.13", 2009, 8, 3>>, <<"3.0.14", 2009, 9, 9>>, <<"3.0.15", 2009, 10, 27>>,
    <<"3.0.16", 2009, 12, 15>>, <<"3.0.17", 2010, 1, 5>>, <<"3.0.18", 2010, 2, 17>>,
    <<"3.0.19", 2010, 3, 30>>, <<"3.5.1", 2009, 7, 16>>, <<"3.5.2", 2009, 8, 3>>,
    <<"3.5.3", 2009, 9, 9>>, <<"3.5.4", 2009, 10, 27>>, <<"3.5.5", 2009, 11, 5>>,
    <<"3.5.6", 2009, 12, 15>>, <<"3.5.7", 2010, 1, 5>>, <<"3.5.8", 2010, 2, 17>>,
    <<"3.5.9", 2010, 3, 30>>, <<"3.5.10", 2010, 6, 22>>, <<"3.5.11", 2010, 7, 20>>,
    <<"3.5.12", 2010, 9, 7>>, <<"3.5.13", 2010, 9, 15>>, <<"3.5.14", 2010, 10, 19>>,
    <<"3.5.15", 2010, 10, 27>>, <<"3.5.16", 2010, 12, 9>>, <<"3.5.17", 2011, 3, 1>>,
    <<"3.5.18", 2011, 3, 22>>, <<"3.6.2", 2010, 3, 22>>, <<"3.6.3", 2010, 4, 1>>,
    <<"3.6.4", 2010, 6, 22>>, <<"3.6.6", 2010, 6, 26>>, <<"3.6.7", 2010, 7, 20>>,
    <<"3.6.8", 2010, 7, 23>>, <<"3.6.9", 2010, 9, 7>>, <<"3.6.10", 2010, 9, 15>>,
    <<"3.6.11", 2010, 10, 19>>, <<"3.6.12", 2010, 10, 27>>, <<"3.6.13", 2010, 12, 9>>,
    <<"3.6.14", 2011, 3, 1>>, <<"3.6.15", 2011, 3, 4>>, <<"3.6.16", 2011, 3, 22>>,
    <<"3.6.17", 2011, 4, 28>>, <<"3.6.18", 2011, 6, 21>>, <<"3.6.19", 2011, 7, 11>>,
    <<"3.6.20", 2011, 8, 16>>, <<"3.6.21", 2011, 8, 30>>, <<"3.6.22", 2011, 9, 6>>,
    <<"3.6.23", 2011, 9, 27>>, <<"3.6.24", 2011, 11, 8>>, <<"3.6.25", 2011, 12, 20>>,
    <<"3.6.26", 2012, 1, 31>>, <<"3.6.27", 2012, 2, 17>>, <<"4.0", 2011, 3, 22>>,
    <<"4.0.1", 2011, 4, 28>>, <<"5.0", 2011, 6, 21>>, <<"7.0", 2011, 9, 27>>,
    <<"8.0", 2011, 11, 8>>, <<"9.0", 2011, 12, 20>>, <<"5.0.1", 2011, 7, 11>>,
    <<"6.0", 2011, 8, 16>>, <<"6.0.1", 2011, 8, 30>>, <<"6.0.2", 2011, 9, 6>>,
    <<"7.0.1", 2011, 9, 29>>, <<"8.0.1", 2011, 11, 21>>, <<"9.0.1", 2011, 12, 21>>,
    <<"10.0", 2012, 1, 31>>, <<"11.0", 2012, 3, 13>>, <<"14.0.1", 2012, 7, 17>>,
    <<"10.0.1", 2012, 2, 10>>, <<"10.0.2", 2012, 2, 16>>, <<"10.0.3", 2012, 3, 13>>,
    <<"10.0.4", 2012, 4, 24>>, <<"10.0.5", 2012, 6, 5>>, <<"10.0.6", 2012, 7, 17>>,
    <<"10.0.7", 2012, 8, 28>>, <<"10.0.8", 2012, 10, 9>>, <<"10.0.9", 2012, 10, 12>>,
    <<"10.0.10", 2012, 10, 26>>, <<"10.0.11", 2012, 11, 20>>, <<"12.0", 2012, 4, 24>>,
    <<"13.0", 2012, 6, 5>>, <<"13.0.1", 2012, 6, 15>>, <<"15.0", 2012, 8, 28>>,
    <<"15.0.1", 2012, 9, 6>>, <<"16.0", 2012, 10, 9>>, <<"16.0.1", 2012, 10, 11>>,
    <<"16.0.2", 2012, 10, 26>>, <<"17.0", 2012, 11, 20>>, <<"17.0.1", 2012, 11, 30>>,
    <<"17.0.2", 2013, 1, 8>>, <<"17.0.3", 2013, 2, 19>>, <<"17.0.4", 2013, 3, 7>>,
    <<"17.0.5", 2013, 4, 2>>, <<"17.0.6", 2013, 5, 14>>, <<"17.0.7", 2013, 6, 25>>,
    <<"17.0.8", 2013, 8, 6>>, <<"17.0.9", 2013, 9, 17>>, <<"17.0.10", 2013, 10, 29>>,
    <<"17.0.11", 2013, 11, 15>>, <<"18.0", 2013, 1, 6>>, <<"18.0.1", 2013, 1, 18>>,
    <<"18.0.2", 2013, 2, 5>>, <<"19.0", 2013, 2, 19>>, <<"19.0.1", 2013, 2, 27>>,
    <<"19.0.2", 2013, 3, 7>>, <<"20.0", 2013, 4, 2>>, <<"20.0.1", 2013, 4, 11>>,
    <<"21.0", 2013, 5, 14>>, <<"22.0", 2013, 6, 25>>, <<"23.0", 2013, 8, 6>>,
    <<"23.0.1", 2013, 8, 17>>, <<"24.0", 2013, 9, 17>>, <<"24.1.0", 2013, 10, 29>>,
    <<"24.1.1", 2013, 11, 15>>, <<"24.2.0", 2013, 12, 10>>, <<"24.3.0", 2013, 12, 10>>,
    <<"24.4.0", 2013, 12, 10>>, <<"24.5.0", 2013, 12, 10>>, <<"24.6.0", 2013, 12, 10>>,
    <<"24.7.0", 2013, 12, 10>>, <<"24.8.0", 2013, 12, 10>>, <<"24.8.1", 2013, 12, 10>>,
    <<"25.0", 2013, 10, 29>>, <<"25.0.1", 2013, 11, 15>>, <<"26.0", 2013, 12, 10>>,
    <<"27.0", 2014, 2, 4>>, <<"27.0.1", 2014, 2, 14>>, <<"28.0", 2014, 3, 18>>,
    <<"29.0", 2014, 4, 29>>, <<"29.0.1", 2014, 5, 9>>, <<"30.0", 2014, 6, 10>>,
    <<"31.0", 2014, 7, 22>>, <<"31.1.0", 2014, 9, 2>>, <<"31.1.1", 2014, 9, 2>>,
    <<"31.2.0", 2014, 10, 14>>, <<"31.3.0", 2014, 12, 1>>, <<"31.4.0", 2015, 1, 13>>,
    <<"31.5.0", 2015, 2, 24>>, <<"31.5.3", 2015, 3, 21>>, <<"31.6.0", 2015, 3, 31>>,
    <<"31.7.0", 2015, 5, 12>>, <<"31.8.0", 2015, 7, 2>>, <<"32.0", 2014, 9, 2>>,
    <<"32.0.1", 2014, 9, 12>>, <<"32.0.2", 2014, 9, 18>>, <<"32.0.3", 2014, 9, 24>>,
    <<"33.0", 2014, 10, 14>>, <<"33.0.1", 2014, 10, 24>>, <<"33.0.2", 2014, 10, 28>>,
    <<"33.0.3", 2014, 11, 7>>, <<"33.1", 2014, 11, 10>>, <<"33.1.1", 2014, 11, 14>>,
    <<"34.0", 2014, 12, 1>>, <<"34.0.5", 2014, 12, 1>>, <<"35.0", 2015, 1, 13>>,
    <<"35.0.1", 2015, 1, 27>>, <<"36.0", 2015, 2, 24>>, <<"36.0.1", 2015, 3, 6>>,
    <<"36.0.2", 2015, 3, 16>>, <<"36.0.3", 2015, 3, 20>>, <<"36.0.4", 2015, 3, 21>>,
    <<"37.0", 2015, 3, 31>>, <<"37.0.1", 2015, 4, 3>>, <<"37.0.2", 2015, 4, 20>>,
    <<"38.0", 2015, 5, 12>>, <<"38.0.1", 2015, 5, 14>>, <<"38.1.0", 2015, 7, 2>>,
    <<"38.1.1", 2015, 8, 6>>, <<"38.2.0", 2015, 8, 11>>, <<"38.2.1", 2015, 8, 27>>,
    <<"38.3.0", 2015, 9, 22>>, <<"38.4.0", 2015, 11, 3>>, <<"38.5.0", 2015, 12, 15>>,
    <<"38.5.1", 2015, 12, 21>>, <<"38.5.2", 2015, 12, 22>>, <<"38.6.0", 2016, 1, 26>>,
    <<"38.6.1", 2016, 2, 11>>, <<"38.7.0", 2016, 3, 8>>, <<"38.7.1", 2016, 3, 16>>,
    <<"38.8.0", 2016, 4, 26>>, <<"38.0.5", 2015, 6, 2>>, <<"39.0", 2015, 7, 2>>,
    <<"39.0.3", 2015, 8, 6>>, <<"40.0", 2015, 8, 11>>, <<"40.0.2", 2015, 8, 13>>,
    <<"40.0.3", 2015, 8, 27>>, <<"41.0", 2015, 9, 22>>, <<"41.0.1", 2015, 9, 30>>,
    <<"41.0.2", 2015, 10, 15>>, <<"42.0", 2015, 11, 3>>, <<"43.0", 2015, 12, 15>>,
    <<"43.0.1", 2015, 12, 18>>, <<"43.0.2", 2015, 12, 22>>, <<"43.0.3", 2015, 12, 28>>,
    <<"43.0.4", 2016, 1, 6>>, <<"44.0", 2016, 1, 26>>, <<"44.0.1", 2016, 2, 8>>,
    <<"44.0.2", 2016, 2, 11>>, <<"45.0", 2016, 3, 8>>, <<"45.0.1", 2016, 3, 16>>,
    <<"45.0.2", 2016, 4, 12>>, <<"45.1.0", 2016, 4, 26>>, <<"45.1.1", 2016, 5, 3>>,
    <<"45.2.0", 2016, 6, 7>>, <<"45.3.0", 2016, 8, 2>>, <<"45.4.0", 2016, 9, 20>>,
    <<"45.5.0", 2016, 11, 15>>, <<"45.5.1", 2016, 11, 30>>, <<"45.6.0", 2016, 12, 13>>,
    <<"45.7.0", 2017, 1, 24>>, <<"45.8.0", 2017, 3, 7>>, <<"45.9.0", 2017, 4, 19>>,
    <<"46.0", 2016, 4, 26>>, <<"46.0.1", 2016, 5, 3>>, <<"47.0", 2016, 6, 7>>,
    <<"47.0.1", 2016, 6, 28>>, <<"48.0", 2016, 8, 2>>, <<"48.0.1", 2016, 8, 18>>,
    <<"48.0.2", 2016, 8, 24>>, <<"49.0", 2016, 8, 2>>, <<"49.0.1", 2016, 9, 23>>,
    <<"50.0", 2016, 11, 15>>, <<"50.0.1", 2016, 11, 28>>, <<"50.0.2", 2016, 11, 30>>,
    <<"51.0", 2017, 1, 24>>, <<"51.0.1", 2017, 1, 26>>, <<"52.0", 2017, 3, 7>>,
    <<"52.1.0", 2017, 4, 19>>, <<"52.1.1", 2017, 5, 19>>, <<"52.1.2", 2017, 5, 19>>,
    <<"52.2.0", 2017, 6, 13>>, <<"52.2.1", 2017, 6, 29>>, <<"52.3.0", 2017, 8, 8>>,
    <<"52.4.0", 2017, 9, 28>>, <<"52.4.1", 2017, 10, 9>>, <<"52.5.0", 2017, 12, 7>>,
    <<"52.5.3", 2017, 12, 28>>, <<"52.6.0", 2018, 1, 23>>, <<"52.7.0", 2018, 3, 13>>,
    <<"52.7.1", 2018, 3, 14>>, <<"52.7.2", 2018, 3, 16>>, <<"52.7.3", 2018, 3, 26>>,
    <<"52.7.4", 2018, 4, 30>>, <<"52.8.0", 2018, 5, 9>>, <<"52.8.1", 2018, 6, 6>>,
    <<"52.9.0", 2018, 6, 26>>, <<"53.0", 2017, 4, 19>>, <<"53.0.2", 2017, 5, 5>>,
    <<"53.0.3", 2017, 5, 19>>, <<"54.0", 2017, 6, 13>>, <<"54.0.1", 2017, 6, 29>>,
    <<"55.0", 2017, 8, 8>>, <<"55.0.1", 2017, 8, 10>>, <<"55.0.2", 2017, 8, 16>>,
    <<"55.0.3", 2017, 8, 25>>, <<"56.0", 2017, 9, 28>>, <<"56.0.1", 2017, 10, 9>>,
    <<"56.0.2", 2017, 10, 26>>, <<"57.0", 2017, 11, 14>>, <<"57.0.1", 2017, 11, 29>>,
    <<"57.0.2", 2017, 12, 7>>, <<"57.0.3", 2017, 12, 28>>, <<"57.0.4", 2018, 1, 4>>,
    <<"58.0", 2018, 1, 23>>, <<"58.0.1", 2018, 1, 29>>, <<"58.0.2", 2018, 2, 7>>,
    <<"59.0", 2018, 3, 13>>, <<"59.0.1", 2018, 3, 16>>, <<"59.0.2", 2018, 3, 26>>,
    <<"59.0.3", 2018, 4, 30>>, <<"60.0", 2018, 5, 9>>, <<"60.0.1", 2018, 5, 16>>,
    <<"60.0.2", 2018, 6, 6>>, <<"60.1.0", 2018, 6, 26>>, <<"60.2.0", 2018, 9, 5>>,
    <<"60.2.1", 2018, 9, 21>>, <<"60.2.2", 2018, 10, 2>>, <<"60.3.0", 2018, 10, 23>>,
    <<"60.4.0", 2018, 12, 11>>, <<"60.5.0", 2019, 1, 29>>, <<"60.5.1", 2019, 2, 12>>,
    <<"60.5.2", 2019, 2, 22>>, <<"60.6.0", 2019, 3, 19>>, <<"60.6.1", 2019, 3, 22>>,
    <<"60.6.2", 2019, 5, 5>>, <<"60.6.3", 2019, 5, 8>>, <<"60.7.0", 2019, 5, 21>>,
    <<"60.7.1", 2019, 6, 18>>, <<"60.7.2", 2019, 6, 20>>, <<"60.8.0", 2019, 7, 9>>,
    <<"60.9.0", 2019, 9, 3>>, <<"61.0", 2018, 6, 26>>, <<"61.0.1", 2018, 7, 5>>,
    <<"61.0.2", 2018, 8, 8>>, <<"62.0", 2018, 9, 5>>, <<"62.0.1", 2018, 9, 7>>,
    <<"62.0.2", 2018, 9, 21>>, <<"62.0.3", 2018, 10, 2>>, <<"63.0", 2018, 10, 23>>,
    <<"63.0.1", 2018, 10, 31>>, <<"63.0.2", 2018, 11, 7>>, <<"63.0.3", 2018, 11, 15>>,
    <<"64.0", 2018, 12, 11>>, <<"64.0.1", 2018, 12, 14>>, <<"64.0.2", 2019, 1, 9>>,
    <<"65.0", 2019, 1, 29>>, <<"65.0.1", 2019, 2, 12>>, <<"65.0.2", 2019, 2, 28>>,
    <<"66.0", 2019, 3, 19>>, <<"66.0.1", 2019, 3, 22>>, <<"66.0.2", 2019, 3, 27>>,
    <<"66.0.3", 2019, 4, 10>>, <<"66.0.4", 2019, 5, 5>>, <<"66.0.5", 2019, 5, 7>>,
    <<"67.0", 2019, 5, 21>>, <<"67.0.1", 2019, 6, 4>>, <<"67.0.2", 2019, 6, 11>>,
    <<"67.0.3", 2019, 6, 18>>, <<"67.0.4", 2019, 6, 20>>, <<"68.0", 2019, 7, 13>>,
    <<"68.0.1", 2019, 7, 18>>, <<"68.0.2", 2019, 8, 14>>, <<"68.1.0", 2019, 9, 3>>,
    <<"68.2.0", 2019, 10, 22>>, <<"68.3.0", 2019, 12, 3>>, <<"68.4.0", 2020, 1, 7>>,
    <<"68.4.1", 2020, 1, 8>>, <<"68.4.2", 2020, 1, 20>>, <<"68.5.0", 2020, 2, 11>>,
    <<"68.6.0", 2020, 3, 10>>, <<"68.6.1", 2020, 4, 3>>, <<"68.7.0", 2020, 4, 7>>,
    <<"68.8.0", 2020, 5, 5>>, <<"68.9.0", 2020, 6, 2>>, <<"68.10.0", 2020, 6, 30>>,
    <<"68.11.0", 2020, 7, 28>>, <<"68.12.0", 2020, 8, 25>>, <<"69.0", 2019, 9, 3>>,
    <<"69.0.1", 2019, 9, 18>>, <<"69.0.2", 2019, 10, 3>>, <<"69.0.3", 2019, 10, 10>>,
    <<"70.0", 2019, 10, 22>>, <<"70.0.1", 2019, 10, 31>>, <<"71.0", 2019, 12, 3>>,
    <<"72.0", 2020, 1, 7>>, <<"72.0.1", 2020, 1, 8>>, <<"72.0.2", 2020, 1, 20>>,
    <<"73.0", 2020, 2, 11>>, <<"73.0.1", 2020, 2, 18>>, <<"74.0", 2020, 3, 10>>,
    <<"74.0.1", 2020, 4, 3>>, <<"75.0", 2020, 4, 7>>, <<"76.0", 2020, 5, 5>>,
    <<"76.0.1", 2020, 5, 8>>, <<"77.0", 2020, 6, 2>>, <<"77.0.1", 2020, 6, 3>>,
    <<"78.0", 2020, 6, 30>>, <<"78.0.1", 2020, 7, 1>>, <<"78.0.2", 2020, 7, 9>>,
    <<"78.1.0", 2020, 7, 28>>, <<"78.2.0", 2020, 8, 25>>, <<"78.3.0", 2020, 9, 22>>,
    <<"78.3.1", 2020, 10, 1>>, <<"78.4.0", 2020, 10, 20>>, <<"78.4.1", 2020, 11, 10>>,
    <<"78.5.0", 2020, 11, 17>>, <<"78.6.0", 2020, 12, 15>>, <<"78.6.1", 2021, 1, 6>>,
    <<"79.0", 2020, 7, 28>>, <<"80.0", 2020, 8, 25>>, <<"80.0.1", 2020, 9, 1>>,
    <<"81.0", 2020, 9, 22>>, <<"81.0.1", 2020, 10, 1>>, <<"81.0.2", 2020, 10, 13>>,
    <<"82.0", 2020, 10, 20>>, <<"82.0.1", 2020, 10, 27>>, <<"82.0.2", 2020, 10, 28>>,
    <<"82.0.3", 2020, 11, 10>>, <<"83.0", 2020, 11, 17>>, <<"84.0", 2020, 12, 15>>,
    <<"84.0.1", 2020, 12, 22>>, <<"84.0.2", 2021, 1, 6>>
>>

\* Rows (major version, lowest build, highest build).
CHROME_BUILD == <<
    <<49, 2623, 2623>>, <<50, 2661, 2661>>, <<51, 2704, 2704>>, <<52, 2743, 2743>>,
    <<53, 2785, 2785>>, <<54, 2840, 2840>>, <<55, 2883, 2883>>, <<56, 2924, 2924>>,
    <<57, 2987, 2987>>, <<58, 3029, 3029>>, <<59, 3071, 3071>>, <<60, 3112, 3112>>,
    <<61, 3163, 3163>>, <<62, 3202, 3202>>, <<63, 3239, 3239>>, <<64, 3251, 3282>>,
    <<65, 3325, 3325>>, <<66, 3359, 3359>>, <<67, 3396, 3396>>, <<68, 3440, 3440>>,
    <<69, 3497, 3497>>, <<70, 3538, 3538>>, <<71, 3578, 3578>>, <<72, 3626, 3626>>,
    <<73, 3683, 3683>>, <<74, 3729, 3729>>, <<75, 3770, 3770>>, <<76, 3809, 3809>>,
    <<77, 3865, 3865>>, <<78, 3904, 3904>>, <<79, 3945, 3945>>, <<80, 3987, 3987>>,
    <<81, 4044, 4044>>, <<83, 4103, 4103>>, <<84, 4147, 4147>>, <<85, 4183, 4183>>,
    <<86, 4240, 4240>>, <<87, 4280, 4280>>
>>

\* Rows (numeric version, display version, Trident version).
IE_VERSION == <<
    <<8, "MSIE 8.0", "4.0">>,
    <<9, "MSIE 9.0", "5.0">>,
    <<10, "MSIE 10.0", "6.0">>,
    <<11, "MSIE 11.0", "7.0">>
>>

\* Rows (macOS version, first minor build, end of the minor builds).
MACOSX_CHROME_BUILD_RANGE == catalogs.MACOSX_CHROME_BUILD_RANGE
\* The smartphone model identifiers of user_agent/device.py, an opaque
\* catalog of strings.
SMARTPHONE_DEV_IDS == <<"SM-G900F", "Nexus 5", "GT-I9505">>

\* The tablet model identifiers of user_agent/device.py.
TABLET_DEV_IDS == <<"SM-T530", "Nexus 7">>

\* A template is the sequence of its pieces: a literal, or a replacement
\* field {obj[key]} with obj one of "system" and "app".
Lit(s) == [lit |-> s, obj |-> "", key |-> ""]

Field(o, k) == [lit |-> "", obj |-> o, key |-> k]

\* The module's dicts as the import builds them; a list X_keys is
\* list(X.keys()), the keys of X in insertion order.
module_catalogs ==
    [DEVICE_TYPE_OS |->
        [desktop |-> <<"win", "mac", "linux">>,
         smartphone |-> <<"android">>,
         tablet |-> <<"android">>],
     DEVICE_TYPE_OS_keys |->
        <<"desktop", "smartphone", "tablet">>,
     OS_DEVICE_TYPE |->
        [win |-> <<"desktop">>,
         linux |-> <<"desktop">>,
         mac |-> <<"desktop">>,
         android |-> <<"smartphone", "tablet">>],
     DEVICE_TYPE_NAVIGATOR |->
        [desktop |-> <<"chrome", "firefox", "ie">>,
         smartphone |-> <<"firefox", "chrome">>,
         tablet |-> <<"firefox", "chrome">>],
     NAVIGATOR_DEVICE_TYPE |->
        [ie |-> <<"desktop">>,
         chrome |-> <<"desktop", "smartphone", "tablet">>,
         firefox |-> <<"desktop", "smartphone", "tablet">>],
     OS_PLATFORM |->
        [win |-> <<"Windows NT 5.1", "Windows NT 6.1", "Windows NT 6.2",
                   "Windows NT 6.3", "Windows NT 10.0">>,
         mac |-> <<"Macintosh; Intel Mac OS X 10.8", "Macintosh; Intel Mac OS X 10.9",
                   "Macintosh; Intel Mac OS X 10.10", "Macintosh; Intel Mac OS X 10.11",
                   "Macintosh; Intel Mac OS X 10.12", "Macintosh; Intel Mac OS X 10.13",
                   "Macintosh; Intel Mac OS X 10.14", "Macintosh; Intel Mac OS X 10.15">>,
         linux |-> <<"X11; Linux", "X11; Ubuntu; Linux">>,
         android |-> <<"Android 4.4", "Android 4.4.1", "Android 4.4.2", "Android 4.4.3",
                       "Android 4.4.4", "Android 5.0", "Android 5.0.1", "Android 5.0.2",
                       "Android 5.1", "Android 5.1.1", "Android 6.0", "Android 6.0.1",
                       "Android 7.0", "Android 7.1", "Android 7.1.1", "Android 7.1.2",
                       "Android 8.0", "Android 8.1", "Android 9", "Android 10",
                       "Android 11">>],
     OS_PLATFORM_keys |->
        <<"win", "mac", "linux", "android">>,
     OS_CPU |->
        [win |-> <<"", "Win64; x64", "WOW64">>,
         linux |-> <<"i686", "x86_64", "i686 on x86_64">>,
         mac |-> <<"">>,
         android |-> <<"armv7l", "armv8l">>],
     OS_CPU_keys |->
        <<"win", "linux", "mac", "android">>,
     OS_NAVIGATOR |->
        [win |-> <<"chrome", "firefox", "ie">>,
         mac |-> <<"firefox", "chrome">>,
         linux |-> <<"chrome", "firefox">>,
         android |-> <<"firefox", "chrome">>],
     OS_NAVIGATOR_keys |->
        <<"win", "mac", "linux", "android">>,
     NAVIGATOR_OS |->
        [chrome |-> <<"win", "linux", "mac", "android">>,
         firefox |-> <<"win", "linux", "mac", "android">>,
         ie |-> <<"win">>],
     NAVIGATOR_OS_keys |->
        <<"chrome", "firefox", "ie">>,
     MACOSX_CHROME_BUILD_RANGE |->
        <<
            <<"10.8", 0, 8>>,
            <<"10.9", 0, 5>>,
            <<"10.10", 0, 5>>,
            <<"10.11", 0, 6>>,
            <<"10.12", 0, 6>>,
            <<"10.13", 0, 6>>,
            <<"10.14", 0, 6>>,
            <<"10.15", 0, 7>>,
            <<"11.0", 0, 2>>
        >>,
     USER_AGENT_TEMPLATE |->
        [firefox |->
            <<Lit("Mozilla/5.0"),
              Lit(" ("), Field("system", "ua_platform"), Lit("; rv:"), Field("app", "build_version"), Lit(")"),
              Lit(" Gecko/"), Field("app", "geckotrail"),
              Lit(" Firefox/"), Field("app", "build_version")>>,
         chrome |->
            <<Lit("Mozilla/5.0"),
              Lit(" ("), Field("system", "ua_platform"), Lit(") AppleWebKit/537.36"),
              Lit(" (KHTML, like Gecko)"),
              Lit(" Chrome/"), Field("app", "build_version"), Lit(" Safari/537.36")>>,
         chrome_smartphone |->
            <<Lit("Mozilla/5.0"),
              Lit(" ("), Field("system", "ua_platform"), Lit(") AppleWebKit/537.36"),
              Lit(" (KHTML, like Gecko)"),
              Lit(" Chrome/"), Field("app", "build_version"), Lit(" Mobile Safari/537.36")>>,
         chrome_tablet |->
            <<Lit("Mozilla/5.0"),
              Lit(" ("), Field("system", "ua_platform"), Lit(") AppleWebKit/537.36"),
              Lit(" (KHTML, like Gecko)"),
              Lit(" Chrome/"), Field("app", "build_version"), Lit(" Safari/537.36")>>,
         ie_less_11 |->
            <<Lit("Mozilla/5.0"),
              Lit(" (compatible; "), Field("app", "build_version"), Lit("; "),
              Field("system", "ua_platform"), Lit(";"),
              Lit(" Trident/"), Field("app", "trident_version"), Lit(")")>>,
         ie_11 |->
            <<Lit("Mozilla/5.0"),
              Lit(" ("), Field("system", "ua_platform"), Lit("; Trident/"),
              Field("app", "trident_version"), Lit(";"),
              Lit(" rv:11.0) like Gecko")>>]]

USER_AGENT_TEMPLATE == catalogs.USER_AGENT_TEMPLATE

\* template.format(system=system, app=app)
RECURSIVE format(_, _, _)
format(template, system, app) ==
    IF template = <<>> THEN ""
    ELSE LET p == Head(template)
         IN (IF p.obj = "system" THEN system[p.key]
             ELSE IF p.obj = "app" THEN app[p.key]
             ELSE p.lit)
            \o format(Tail(template), system, app)

(***************************************************************************)
(* The random source.  A function that samples takes the tape t of the     *)
(* outcomes still to come and returns [exc, val, rest]: the exception it   *)
(* raised ("" when it returned), its value, and the tape it left.  A draw  *)
(* from an exhausted tape stops the call with NeedDraw and the range       *)
(* <<lo, hi>> of the outcomes the draw can have; Runs builds from it       *)
(* every tape a call can consume.  A tape whose next outcome the draw      *)
(* cannot have is the tape of another call: the call stops with            *)
(* NotAnOutcome.                                                           *)
(***************************************************************************)
Return(v, t) == [exc |-> "", val |-> v, rest |-> t]

Raise(e, v) == [exc |-> e, val |-> v, rest |-> <<>>]

Raised(r) == r.exc # ""

\* random.randint(a, b): an integer of a..b.
randint(a, b, t) ==
    IF a > b THEN Raise("ValueError", "empty range for randrange()")
    ELSE IF t = <<>> THEN Raise("NeedDraw", <<a, b>>)
    ELSE IF Head(t) \notin a..b THEN Raise("NotAnOutcome", <<a, b>>)
    ELSE Return(Head(t), Tail(t))

\* random.choice(seq): seq[i] for a drawn 0-based index i.
choice(seq, t) ==
    IF seq = <<>> THEN Raise("IndexError", "Cannot choose from an empty sequence")
    ELSE IF t = <<>> THEN Raise("NeedDraw", <<0, Len(seq) - 1>>)
    ELSE IF Head(t) \notin 0..(Len(seq) - 1) THEN Raise("NotAnOutcome", <<0, Len(seq) - 1>>)
    ELSE Return(seq[Head(t) + 1], Tail(t))

\* The outcomes of a draw from lo..hi that the model explores.
Draw(lo, hi) ==
    IF hi - lo + 1 <= SmallTable THEN lo..hi
    ELSE (lo..(lo + (MaxDraw + 1) \div 2 - 1)) \cup ((hi - MaxDraw \div 2 + 1)..hi)

\* range(a, b)
range(a, b) == [i \in 1..Max(b - a, 0) |-> a + i - 1]

(***************************************************************************)
(* Build selectors.                                                        *)
(***************************************************************************)
\* The release date of a row of FIREFOX_VERSION.
release_date(row) == datetime(row[2], row[3], row[4])

\* The end of the sampling window of the row at place idx of the table: the
\* release date of the row after it, one day after its own when it is the
\* last (IndexError).
firefox_date_to(table, idx) ==
    IF idx + 1 <= Len(table)
    THEN release_date(table[idx + 1])
    ELSE AddSeconds(release_date(table[idx]), SecondsPerDay)

MinSecRange == 100000

\* firefox_max_offset whose sec_range is the whole window, without the - 1.
firefox_max_offset_whole_window(table, idx) ==
    Max(total_seconds(firefox_date_to(table, idx), release_date(table[idx])), MinSecRange)

\* firefox_max_offset without the floor: sec_range itself.
firefox_max_offset_no_floor(table, idx) ==
    total_seconds(firefox_date_to(table, idx), release_date(table[idx])) - 1

\* max(sec_range, 100000) of the row at place idx of the table.
firefox_max_offset(table, idx) ==
    Max(total_seconds(firefox_date_to(table, idx), release_date(table[idx])) - 1, MinSecRange)

\* The body of get_firefox_build, table being FIREFOX_VERSION.
firefox_build(table, t) ==
    LET row == choice(table, t)
    IN IF Raised(row) THEN row
       ELSE LET build_ver == row.val[1]
                date_from == release_date(row.val)
                idx == Index(table, row.val)
                off == randint(0, firefox_max_offset(table, idx), row.rest)
            IN IF Raised(off) THEN off
               ELSE Return(<<build_ver, strftime(AddSeconds(date_from, off.val))>>, off.rest)

get_firefox_build(t) == firefox_build(FIREFOX_VERSION, t)

MaxChromePatch == 120

get_chrome_build(t) ==
    LET build == choice(CHROME_BUILD, t)
    IN IF Raised(build) THEN build
       ELSE LET b == randint(build.val[2], build.val[3], build.rest)
            IN IF Raised(b) THEN b
               ELSE LET p == randint(0, MaxChromePatch, b.rest)
                    IN IF Raised(p) THEN p
                       ELSE Return(Str(build.val[1]) \o ".0." \o Str(b.val) \o "." \o Str(p.val),
                                   p.rest)

get_ie_build(t) == choice(IE_VERSION, t)

(***************************************************************************)
(* Component assembler.                                                    *)
(***************************************************************************)
\* MACOSX_CHROME_BUILD_RANGE[ver]; <<>> stands for the KeyError.
mac_build_range(ver) ==
    LET rows == SelectSeq(MACOSX_CHROME_BUILD_RANGE, LAMBDA r : r[1] = ver)
    IN IF rows = <<>> THEN <<>> ELSE <<rows[1][2], rows[1][3]>>

\* fix_chrome_mac_platform whose range of minor builds includes its end.
fix_chrome_mac_platform_closed_range(platform, t) ==
    LET ver == Split(platform, "OS X ", -1)[2]
        bounds == mac_build_range(ver)
    IN IF bounds = <<>> THEN Raise("KeyError", ver)
       ELSE LET build == choice(range(bounds[1], bounds[2] + 1), t)
            IN IF Raised(build) THEN build
               ELSE Return("Macintosh; Intel Mac OS X "
                           \o Replace(ver, ".", "_") \o "_" \o Str(build.val),
                           build.rest)

fix_chrome_mac_platform(platform, t) ==
    LET ver == Split(platform, "OS X ", -1)[2]
        bounds == mac_build_range(ver)
    IN IF bounds = <<>> THEN Raise("KeyError", ver)
       ELSE LET build == choice(range(bounds[1], bounds[2]), t)
            IN IF Raised(build) THEN build
               ELSE Return("Macintosh; Intel Mac OS X "
                           \o Replace(ver, ".", "_") \o "_" \o Str(build.val),
                           build.rest)

\* platform.split(" ")[-1]
LastWord(s) == LET parts == Split(s, " ", -1) IN parts[Len(parts)]

build_system_win(t) ==
    LET platform_version == choice(OS_PLATFORM.win, t)
    IN IF Raised(platform_version) THEN platform_version
       ELSE LET cpu == choice(OS_CPU.win, platform_version.rest)
            IN IF Raised(cpu) THEN cpu
               ELSE LET platform == IF cpu.val # ""
                                    THEN platform_version.val \o "; " \o cpu.val
                                    ELSE platform_version.val
                    IN Return([platform_version |-> platform_version.val,
                               platform |-> platform,
                               ua_platform |-> platform,
                               oscpu |-> platform],
                              cpu.rest)

build_system_linux(t) ==
    LET cpu == choice(OS_CPU.linux, t)
    IN IF Raised(cpu) THEN cpu
       ELSE LET platform_version == choice(OS_PLATFORM.linux, cpu.rest)
            IN IF Raised(platform_version) THEN platform_version
               ELSE LET platform == platform_version.val \o " " \o cpu.val
                    IN Return([platform_version |-> platform_version.val,
                               platform |-> platform,
                               ua_platform |-> platform,
                               oscpu |-> "Linux " \o cpu.val],
                              platform_version.rest)

build_system_mac(navigator_id, t) ==
    LET cpu == choice(OS_CPU.mac, t)
    IN IF Raised(cpu) THEN cpu
       ELSE LET platform_version == choice(OS_PLATFORM.mac, cpu.rest)
            IN IF Raised(platform_version) THEN platform_version
               ELSE LET platform == IF navigator_id = "chrome"
                                    THEN fix_chrome_mac_platform(platform_version.val,
                                                                 platform_version.rest)
                                    ELSE Return(platform_version.val, platform_version.rest)
                    IN IF Raised(platform) THEN platform
                       ELSE Return([platform_version |-> platform_version.val,
                                    platform |-> "MacIntel",
                                    ua_platform |-> platform.val,
                                    oscpu |-> "Intel Mac OS X " \o LastWord(platform.val)],
                                   platform.rest)

\* android_ua_platform that names every Firefox device Mobile.
android_ua_platform_always_mobile(device_type, navigator_id, platform_version, t) ==
    IF navigator_id = "firefox"
    THEN Return(platform_version \o "; Mobile", t)
    ELSE LET device_id == choice(SMARTPHONE_DEV_IDS, t)
         IN IF Raised(device_id) THEN device_id
            ELSE Return("Linux; " \o platform_version \o "; " \o device_id.val, device_id.rest)

\* android_ua_platform that draws a tablet's model from TABLET_DEV_IDS.
android_ua_platform_tablet_ids(device_type, navigator_id, platform_version, t) ==
    IF navigator_id = "firefox"
    THEN IF device_type = "smartphone" THEN Return(platform_version \o "; Mobile", t)
         ELSE IF device_type = "tablet" THEN Return(platform_version \o "; Tablet", t)
         ELSE Return(None, t)
    ELSE IF navigator_id = "chrome"
    THEN LET device_id == choice(IF device_type = "tablet" THEN TABLET_DEV_IDS
                                 ELSE SMARTPHONE_DEV_IDS, t)
         IN IF Raised(device_id) THEN device_id
            ELSE Return("Linux; " \o platform_version \o "; " \o device_id.val, device_id.rest)
    ELSE Return(None, t)

\* The Android branch's ua_platform: Firefox names the device class, Chrome
\* a device model; no assignment (UnboundLocalError at the use) otherwise.
android_ua_platform(device_type, navigator_id, platform_version, t) ==
    IF navigator_id = "firefox"
    THEN IF device_type = "smartphone" THEN Return(platform_version \o "; Mobile", t)
         ELSE IF device_type = "tablet" THEN Return(platform_version \o "; Tablet", t)
         ELSE Return(None, t)
    ELSE IF navigator_id = "chrome"
    THEN LET device_id == choice(SMARTPHONE_DEV_IDS, t)
         IN IF Raised(device_id) THEN device_id
            ELSE Return("Linux; " \o platform_version \o "; " \o device_id.val, device_id.rest)
    ELSE Return(None, t)

build_system_android(device_type, navigator_id, t) ==
    IF navigator_id \notin {"firefox", "chrome"} THEN Raise("AssertionError", "navigator_id")
    ELSE IF device_type \notin {"smartphone", "tablet"} THEN Raise("AssertionError", "device_type")
    ELSE LET platform_version == choice(OS_PLATFORM.android, t)
         IN IF Raised(platform_version) THEN platform_version
            ELSE LET ua_platform == android_ua_platform(device_type, navigator_id,
                                                        platform_version.val,
                                                        platform_version.rest)
                 IN IF Raised(ua_platform) THEN ua_platform
                    ELSE LET cpu == choice(OS_CPU.android, ua_platform.rest)
                         IN IF Raised(cpu) THEN cpu
                            ELSE IF ua_platform.val = None
                            THEN Raise("UnboundLocalError", "ua_platform")
                            ELSE Return([platform_version |-> platform_version.val,
                                         ua_platform |-> ua_platform.val,
                                         platform |-> "Linux " \o cpu.val,
                                         oscpu |-> "Linux " \o cpu.val],
                                        cpu.rest)

build_system_components(device_type, os_id, navigator_id, t) ==
    IF os_id = "win" THEN build_system_win(t)
    ELSE IF os_id = "linux" THEN build_system_linux(t)
    ELSE IF os_id = "mac" THEN build_system_mac(navigator_id, t)
    ELSE IF os_id = "android" THEN build_system_android(device_type, navigator_id, t)
    ELSE Raise("UnboundLocalError", "res")

\* firefox_geckotrail that is the build version on every os.
firefox_geckotrail_build_version(os_id, build_version) == build_version

\* The Gecko trail of a Firefox header.
firefox_geckotrail(os_id, build_version) ==
    IF os_id \in {"win", "linux", "mac"} THEN "20100101" ELSE build_version

\* ie_app_name whose Netscape starts at version 10.
ie_app_name_from_10(num_ver) ==
    IF num_ver >= 10 THEN "Netscape" ELSE "Microsoft Internet Explorer"

\* The app name of Internet Explorer.
ie_app_name(num_ver) ==
    IF num_ver >= 11 THEN "Netscape" ELSE "Microsoft Internet Explorer"

build_app_components(os_id, navigator_id, t) ==
    IF navigator_id = "firefox"
    THEN LET build == get_firefox_build(t)
         IN IF Raised(build) THEN build
            ELSE LET build_version == build.val[1]
                     build_id == build.val[2]
                     geckotrail == firefox_geckotrail(os_id, build_version)
                 IN Return([name |-> "Netscape",
                            product_sub |-> "20100101",
                            vendor |-> "",
                            build_version |-> build_version,
                            build_id |-> build_id,
                            geckotrail |-> geckotrail],
                           build.rest)
    ELSE IF navigator_id = "chrome"
    THEN LET build == get_chrome_build(t)
         IN IF Raised(build) THEN build
            ELSE Return([name |-> "Netscape",
                         product_sub |-> "20030107",
                         vendor |-> "Google Inc.",
                         build_version |-> build.val,
                         build_id |-> None],
                        build.rest)
    ELSE IF navigator_id = "ie"
    THEN LET build == get_ie_build(t)
         IN IF Raised(build) THEN build
            ELSE LET num_ver == build.val[1]
                     build_version == build.val[2]
                     trident_version == build.val[3]
                     app_name == ie_app_name(num_ver)
                 IN Return([name |-> app_name,
                            product_sub |-> None,
                            vendor |-> "",
                            build_version |-> build_version,
                            build_id |-> None,
                            trident_version |-> trident_version],
                           build.rest)
    ELSE Raise("UnboundLocalError", "res")

(***************************************************************************)
(* Constraint solver.  A filter argument is [kind, val]: kind "None"       *)
(* (val empty), "str" (val the one string), "list" (val the items of the   *)
(* list or tuple) or "other" (any other type; val its one str()).          *)
(***************************************************************************)
NoFilter == [kind |-> "None", val |-> <<>>]

StrFilter(s) == [kind |-> "str", val |-> <<s>>]

ListFilter(items) == [kind |-> "list", val |-> items]

OtherFilter(repr) == [kind |-> "other", val |-> <<repr>>]

\* get_option_choices that knows the sentinel only as the string "all", not
\* as an item of a list.
get_option_choices_all_as_string(opt_name, opt_value, default_value, all_choices) ==
    IF opt_value.kind \notin {"str", "list", "None"}
    THEN Raise("InvalidOption",
               "Option " \o opt_name \o " has invalid value: " \o opt_value.val[1])
    ELSE LET given == IF opt_value.kind = "str" THEN <<opt_value.val[1]>>
                      ELSE IF opt_value.kind = "list" THEN opt_value.val
                      ELSE default_value
             choices == IF opt_value = StrFilter("all") THEN all_choices ELSE given
             invalid == SelectSeq(choices, LAMBDA item : ~In(item, all_choices))
         IN IF invalid # <<>>
            THEN Raise("InvalidOption",
                       "Choices of option " \o opt_name
                       \o " contains invalid item: " \o invalid[1])
            ELSE Return(choices, <<>>)

get_option_choices(opt_name, opt_value, default_value, all_choices) ==
    IF opt_value.kind \notin {"str", "list", "None"}
    THEN Raise("InvalidOption",
               "Option " \o opt_name \o " has invalid value: " \o opt_value.val[1])
    ELSE LET given == IF opt_value.kind = "str" THEN <<opt_value.val[1]>>
                      ELSE IF opt_value.kind = "list" THEN opt_value.val
                      ELSE default_value
             choices == IF In("all", given) THEN all_choices ELSE given
             invalid == SelectSeq(choices, LAMBDA item : ~In(item, all_choices))
         IN IF invalid # <<>>
            THEN Raise("InvalidOption",
                       "Choices of option " \o opt_name
                       \o " contains invalid item: " \o invalid[1])
            ELSE Return(choices, <<>>)

\* list(itertools.product(A, B, C)): the last factor varies fastest.
product(A, B, C) ==
    [k \in 1..(Len(A) * Len(B) * Len(C)) |->
        <<A[((k - 1) \div (Len(B) * Len(C))) + 1],
          B[(((k - 1) \div Len(C)) % Len(B)) + 1],
          C[((k - 1) % Len(C)) + 1]>>]

\* compatible without its third test, nav in OS_NAVIGATOR[os].
compatible_two_tests(v) ==
    /\ In(v[2], DEVICE_TYPE_OS[v[1]])
    /\ In(v[3], DEVICE_TYPE_NAVIGATOR[v[1]])

\* The test of the loop of pick_config_ids on v = (dev, os, nav).
compatible(v) ==
    /\ In(v[2], DEVICE_TYPE_OS[v[1]])
    /\ In(v[3], DEVICE_TYPE_NAVIGATOR[v[1]])
    /\ In(v[3], OS_NAVIGATOR[v[2]])

\* config_variants without the filter: every triple of the product.
config_variants_unfiltered(dev_type_choices, os_choices, nav_choices) ==
    product(dev_type_choices, os_choices, nav_choices)

\* config_variants that stops at the first compatible triple.
config_variants_first_only(dev_type_choices, os_choices, nav_choices) ==
    IF SelectSeq(product(dev_type_choices, os_choices, nav_choices), compatible) = <<>>
    THEN <<>>
    ELSE <<Head(SelectSeq(product(dev_type_choices, os_choices, nav_choices), compatible))>>

\* The variants list of pick_config_ids.
config_variants(dev_type_choices, os_choices, nav_choices) ==
    SelectSeq(product(dev_type_choices, os_choices, nav_choices), compatible)

\* default_dev_types that ignores os: every device type.
default_dev_types_all(os) == DEVICE_TYPE_OS_keys

\* The default of device_type: desktop alone when os is None.
default_dev_types(os) == IF os.kind = "None" THEN <<"desktop">> ELSE DEVICE_TYPE_OS_keys

pick_config_ids(device_type, os, navigator, t) ==
    LET dev_type_choices == get_option_choices("device_type", device_type,
                                               default_dev_types(os), DEVICE_TYPE_OS_keys)
        os_choices == get_option_choices("os", os, OS_NAVIGATOR_keys, OS_NAVIGATOR_keys)
        nav_choices == get_option_choices("navigator", navigator,
                                          NAVIGATOR_OS_keys, NAVIGATOR_OS_keys)
    IN IF Raised(dev_type_choices) THEN dev_type_choices
       ELSE IF Raised(os_choices) THEN os_choices
       ELSE IF Raised(nav_choices) THEN nav_choices
       ELSE LET variants == config_variants(dev_type_choices.val, os_choices.val,
                                            nav_choices.val)
            IN IF variants = <<>>
               THEN Raise("InvalidOption",
                          "Options device_type, os and navigator conflicts with each other")
               ELSE LET picked == choice(variants, t)
                    IN IF Raised(picked) THEN picked
                       ELSE IF ~In(picked.val[2], OS_PLATFORM_keys)
                       THEN Raise("AssertionError", "os_id")
                       ELSE IF ~In(picked.val[3], NAVIGATOR_OS_keys)
                       THEN Raise("AssertionError", "navigator_id")
                       ELSE IF ~In(picked.val[1], DEVICE_TYPE_OS_keys)
                       THEN Raise("AssertionError", "device_type")
                       ELSE picked

(***************************************************************************)
(* Template renderer.                                                      *)
(***************************************************************************)
\* choose_ua_template that gives a tablet the smartphone's Chrome template.
choose_ua_template_mobile_tablet(device_type, navigator_id, app) ==
    LET tpl_ie == IF navigator_id = "ie"
                  THEN (IF app.build_version = "MSIE 11.0" THEN "ie_11" ELSE "ie_less_11")
                  ELSE navigator_id
        tpl_name == IF navigator_id = "chrome"
                    THEN (IF device_type \in {"tablet", "smartphone"} THEN "chrome_smartphone"
                          ELSE tpl_ie)
                    ELSE tpl_ie
    IN USER_AGENT_TEMPLATE[tpl_name]

choose_ua_template(device_type, navigator_id, app) ==
    LET tpl_ie == IF navigator_id = "ie"
                  THEN (IF app.build_version = "MSIE 11.0" THEN "ie_11" ELSE "ie_less_11")
                  ELSE navigator_id
        tpl_name == IF navigator_id = "chrome"
                    THEN (IF device_type = "tablet" THEN "chrome_tablet"
                          ELSE IF device_type = "smartphone" THEN "chrome_smartphone"
                          ELSE tpl_ie)
                    ELSE tpl_ie
    IN USER_AGENT_TEMPLATE[tpl_name]

\* build_navigator_app_version that cuts the header at its first space.
build_navigator_app_version_at_space(os_id, navigator_id, platform_version, user_agent) ==
    IF navigator_id \in {"chrome", "ie"}
    THEN Return(Split(user_agent, " ", 1)[2], <<>>)
    ELSE IF os_id = "android"
    THEN Return("5.0 (" \o platform_version \o ")", <<>>)
    ELSE IF os_id = "win" THEN Return("5.0 (Windows)", <<>>)
    ELSE IF os_id = "mac" THEN Return("5.0 (Macintosh)", <<>>)
    ELSE Return("5.0 (X11)", <<>>)

build_navigator_app_version(os_id, navigator_id, platform_version, user_agent) ==
    IF navigator_id \in {"chrome", "ie"}
    THEN IF ~StartsWith(user_agent, "Mozilla/")
         THEN Raise("AssertionError", "user_agent")
         ELSE Return(Split(user_agent, "Mozilla/", 1)[2], <<>>)
    ELSE IF navigator_id = "firefox"
    THEN IF os_id = "android"
         THEN Return("5.0 (" \o platform_version \o ")", <<>>)
         ELSE IF os_id = "win" THEN Return("5.0 (Windows)", <<>>)
         ELSE IF os_id = "mac" THEN Return("5.0 (Macintosh)", <<>>)
         ELSE IF os_id = "linux" THEN Return("5.0 (X11)", <<>>)
         ELSE Raise("KeyError", os_id)
    ELSE Raise("UnboundLocalError", "app_version")

(***************************************************************************)
(* The public functions.                                                   *)
(***************************************************************************)
\* What warn() has emitted when the call ends (the message without its
\* backquotes).
deprecation_warnings(platform) ==
    IF platform.kind # "None"
    THEN <<"The platform option is deprecated. Use os option instead.">>
    ELSE <<>>

\* generate_navigator, step by step; each step is given the values of the
\* steps before it.  The last one builds the returned dict.
navigator_config(ids, system, app, rest, user_agent, app_version) ==
    IF Raised(app_version) THEN app_version
    ELSE Return([os_id |-> ids[2],
                 navigator_id |-> ids[3],
                 platform |-> system.platform,
                 oscpu |-> system.oscpu,
                 build_version |-> app.build_version,
                 build_id |-> app.build_id,
                 app_version |-> app_version.val,
                 app_name |-> app.name,
                 app_code_name |-> "Mozilla",
                 product |-> "Gecko",
                 product_sub |-> app.product_sub,
                 vendor |-> app.vendor,
                 vendor_sub |-> "",
                 user_agent |-> user_agent],
                rest)

\* user_agent = ua_template.format(system=system, app=app), then app_version.
navigator_of_user_agent(ids, system, app, rest, user_agent) ==
    navigator_config(ids, system, app, rest, user_agent,
                     build_navigator_app_version(ids[2], ids[3], system.platform_version,
                                                 user_agent))

\* app = build_app_components(os_id, navigator_id), then the template.
navigator_of_app(ids, system, app) ==
    IF Raised(app) THEN app
    ELSE navigator_of_user_agent(ids, system, app.val, app.rest,
                                 format(choose_ua_template(ids[1], ids[3], app.val),
                                        system, app.val))

\* system = build_system_components(device_type, os_id, navigator_id)
navigator_of_system(ids, system) ==
    IF Raised(system) THEN system
    ELSE navigator_of_app(ids, system.val, build_app_components(ids[2], ids[3], system.rest))

\* device_type, os_id, navigator_id = pick_config_ids(device_type, os, navigator)
navigator_of_ids(ids) ==
    IF Raised(ids) THEN ids
    ELSE navigator_of_system(ids.val,
                             build_system_components(ids.val[1], ids.val[2], ids.val[3],
                                                     ids.rest))

\* generate_navigator without the alias: platform is accepted and ignored.
generate_navigator_platform_ignored(os, navigator, platform, device_type, t) ==
    navigator_of_ids(pick_config_ids(device_type, os, navigator, t))

generate_navigator(os, navigator, platform, device_type, t) ==
    navigator_of_ids(pick_config_ids(device_type,
                                     IF platform.kind # "None" THEN platform ELSE os,
                                     navigator, t))

\* generate_user_agent that does not pass device_type on.
generate_user_agent_no_device_type(os, navigator, platform, device_type, t) ==
    LET config == generate_navigator(os, navigator, platform, NoFilter, t)
    IN IF Raised(config) THEN config
       ELSE Return(config.val.user_agent, config.rest)

generate_user_agent(os, navigator, platform, device_type, t) ==
    LET config == generate_navigator(os, navigator, platform, device_type, t)
    IN IF Raised(config) THEN config
       ELSE Return(config.val.user_agent, config.rest)

\* generate_navigator_js that fills buildID from build_version.
generate_navigator_js_build_version(os, navigator, platform, device_type, t) ==
    LET config == generate_navigator(os, navigator, platform, device_type, t)
    IN IF Raised(config) THEN config
       ELSE Return([appCodeName |-> config.val.app_code_name,
                    appName |-> config.val.app_name,
                    appVersion |-> config.val.app_version,
                    platform |-> config.val.platform,
                    userAgent |-> config.val.user_agent,
                    oscpu |-> config.val.oscpu,
                    product |-> config.val.product,
                    productSub |-> config.val.product_sub,
                    vendor |-> config.val.vendor,
                    vendorSub |-> config.val.vendor_sub,
                    buildID |-> config.val.build_version],
                   config.rest)

generate_navigator_js(os, navigator, platform, device_type, t) ==
    LET config == generate_navigator(os, navigator, platform, device_type, t)
    IN IF Raised(config) THEN config
       ELSE Return([appCodeName |-> config.val.app_code_name,
                    appName |-> config.val.app_name,
                    appVersion |-> config.val.app_version,
                    platform |-> config.val.platform,
                    userAgent |-> config.val.user_agent,
                    oscpu |-> config.val.oscpu,
                    product |-> config.val.product,
                    productSub |-> config.val.product_sub,
                    vendor |-> config.val.vendor,
                    vendorSub |-> config.val.vendor_sub,
                    buildID |-> config.val.build_id],
                   config.rest)

(***************************************************************************)
(* Calls.  The program keeps no state between calls: the state of the      *)
(* model is the last call, its arguments, the outcomes the random source   *)
(* gave it, what it returned or raised and what it warned.                 *)
(***************************************************************************)
Arguments(os, navigator, platform, device_type) ==
    [os |-> os, navigator |-> navigator, platform |-> platform, device_type |-> device_type]

NoArguments == Arguments(NoFilter, NoFilter, NoFilter, NoFilter)

\* The caller's filter objects once a call given them is over, were
\* get_option_choices to take the list it is given as its choices and to
\* write the expansion of "all" into it.
filters_after_call_all_expanded(a) ==
    [a EXCEPT
        !.os = IF @.kind = "list" /\ In("all", @.val)
               THEN ListFilter(OS_NAVIGATOR_keys) ELSE @,
        !.navigator = IF @.kind = "list" /\ In("all", @.val)
                      THEN ListFilter(NAVIGATOR_OS_keys) ELSE @,
        !.device_type = IF @.kind = "list" /\ In("all", @.val)
                        THEN ListFilter(DEVICE_TYPE_OS_keys) ELSE @]

\* The caller's filter objects once a call given them is over:
\* get_option_choices works on list(opt_value), a copy, "all" rebinds the
\* local name to all_choices, and pick_config_ids only iterates the choices.
filters_after_call(a) == a

\* The outcomes of the next draw that the model explores: the first draw of
\* a call that picks a configuration is the choice among the variants, and
\* every variant is explored.
Outcomes(need, t, every) ==
    IF every /\ t = <<>> THEN need[1]..need[2] ELSE Draw(need[1], need[2])

\* The runs of a call F on the arguments a: every tape that extends t and
\* that the call consumes to its end, with what the call returns or raises.
RECURSIVE Runs(_, _, _, _)
Runs(F(_, _), a, t, every) ==
    LET r == F(a, t)
    IN IF r.exc = "NeedDraw"
       THEN UNION {Runs(F, a, Append(t, d), every) : d \in Outcomes(r.val, t, every)}
       ELSE {[tape |-> t, result |-> r]}

call_generate_navigator(a, t) ==
    generate_navigator(a.os, a.navigator, a.platform, a.device_type, t)

call_generate_user_agent(a, t) ==
    generate_user_agent(a.os, a.navigator, a.platform, a.device_type, t)

call_generate_navigator_js(a, t) ==
    generate_navigator_js(a.os, a.navigator, a.platform, a.device_type, t)

call_pick_config_ids(a, t) == pick_config_ids(a.device_type, a.os, a.navigator, t)

call_get_firefox_build(a, t) == get_firefox_build(t)

\* The filters the callers of the public functions pass: one axis at a
\* time, then combinations that agree, that conflict, and that use the
\* deprecated platform argument.
OsArgs ==
    {NoFilter, StrFilter("all"), StrFilter("win"), StrFilter("mac"), StrFilter("linux"),
     StrFilter("android"), ListFilter(<<"win", "android">>), StrFilter("ios")}

NavigatorArgs ==
    {NoFilter, StrFilter("all"), StrFilter("chrome"), StrFilter("firefox"), StrFilter("ie"),
     ListFilter(<<"ie", "firefox">>), StrFilter("opera")}

DeviceTypeArgs ==
    {NoFilter, StrFilter("all"), StrFilter("desktop"), StrFilter("smartphone"),
     StrFilter("tablet"), ListFilter(<<"smartphone", "tablet">>), StrFilter("tv")}

PublicArgs ==
    {Arguments(os, NoFilter, NoFilter, NoFilter) : os \in OsArgs}
    \cup {Arguments(NoFilter, navigator, NoFilter, NoFilter) : navigator \in NavigatorArgs}
    \cup {Arguments(NoFilter, NoFilter, NoFilter, device_type) : device_type \in DeviceTypeArgs}
    \cup {Arguments(StrFilter("android"), StrFilter("firefox"), NoFilter, StrFilter("tablet")),
          Arguments(StrFilter("android"), StrFilter("chrome"), NoFilter, StrFilter("smartphone")),
          Arguments(StrFilter("mac"), StrFilter("chrome"), NoFilter, StrFilter("all")),
          Arguments(StrFilter("win"), StrFilter("ie"), NoFilter, StrFilter("desktop")),
          Arguments(StrFilter("win"), StrFilter("firefox"), NoFilter, StrFilter("smartphone")),
          Arguments(StrFilter("linux"), StrFilter("ie"), NoFilter, NoFilter),
          Arguments(StrFilter("android"), NoFilter, NoFilter, StrFilter("desktop")),
          Arguments(StrFilter("ios"), StrFilter("opera"), NoFilter, StrFilter("tv")),
          Arguments(NoFilter, NoFilter, StrFilter("linux"), NoFilter),
          Arguments(StrFilter("win"), StrFilter("firefox"), StrFilter("android"), NoFilter),
          Arguments(StrFilter("mac"), NoFilter, StrFilter("all"), StrFilter("tablet")),
          Arguments(StrFilter("win"), NoFilter, StrFilter("ios"), NoFilter),
          Arguments(ListFilter(<<"all", "ios">>), NoFilter, NoFilter, NoFilter),
          Arguments(ListFilter(<<"mac", "linux">>), ListFilter(<<"ie", "chrome">>), NoFilter,
                    ListFilter(<<"desktop", "tablet">>)),
          Arguments(ListFilter(<<"win", "ios">>), NoFilter, NoFilter, NoFilter)}

\* The filters pick_config_ids is given: those above, and lists that hold
\* the sentinel, an unknown value or nothing, and a value of another type.
OsFilters ==
    OsArgs \cup {ListFilter(<<"all", "ios">>), ListFilter(<<"mac", "ios">>),
                 ListFilter(<<"linux", "mac">>), OtherFilter("5")}

NavigatorFilters ==
    NavigatorArgs \cup {ListFilter(<<"all", "opera">>), ListFilter(<<"chrome", "opera">>),
                        OtherFilter("5")}

DeviceTypeFilters ==
    DeviceTypeArgs \cup {ListFilter(<<"all">>), ListFilter(<<"all", "tv">>),
                         ListFilter(<<"desktop", "tv">>), ListFilter(<<>>), OtherFilter("5")}

PickArgs ==
    {Arguments(os, navigator, NoFilter, device_type) :
        os \in OsFilters, navigator \in NavigatorFilters, device_type \in DeviceTypeFilters}

\* A call starts when no call is in progress (the program is single-threaded
\* and synchronous) and runs to its end in one step.
GenerateNavigator ==
    /\ fn = ""
    /\ \E a \in PublicArgs : \E run \in Runs(call_generate_navigator, a, <<>>, TRUE) :
        /\ fn' = "generate_navigator"
        /\ args' = a
        /\ filters' = filters_after_call(a)
        /\ catalogs' = catalogs
        /\ tape' = run.tape
        /\ result' = run.result
        /\ warnings' = deprecation_warnings(a.platform)

GenerateUserAgent ==
    /\ fn = ""
    /\ \E a \in PublicArgs : \E run \in Runs(call_generate_user_agent, a, <<>>, TRUE) :
        /\ fn' = "generate_user_agent"
        /\ args' = a
        /\ filters' = filters_after_call(a)
        /\ catalogs' = catalogs
        /\ tape' = run.tape
        /\ result' = run.result
        /\ warnings' = deprecation_warnings(a.platform)

GenerateNavigatorJs ==
    /\ fn = ""
    /\ \E a \in PublicArgs : \E run \in Runs(call_generate_navigator_js, a, <<>>, TRUE) :
        /\ fn' = "generate_navigator_js"
        /\ args' = a
        /\ filters' = filters_after_call(a)
        /\ catalogs' = catalogs
        /\ tape' = run.tape
        /\ result' = run.result
        /\ warnings' = deprecation_warnings(a.platform)

\* pick_config_ids called on its own.
PickConfigIds ==
    /\ fn = ""
    /\ \E a \in PickArgs : \E run \in Runs(call_pick_config_ids, a, <<>>, TRUE) :
        /\ fn' = "pick_config_ids"
        /\ args' = a
        /\ filters' = filters_after_call(a)
        /\ catalogs' = catalogs
        /\ tape' = run.tape
        /\ result' = run.result
        /\ warnings' = <<>>

\* get_firefox_build called on its own; every row of the table is drawn.
GetFirefoxBuild ==
    /\ fn = ""
    /\ \E i \in 0..(Len(FIREFOX_VERSION) - 1) :
        \E run \in Runs(call_get_firefox_build, NoArguments, <<i>>, FALSE) :
            /\ fn' = "get_firefox_build"
            /\ args' = NoArguments
            /\ filters' = NoArguments
            /\ catalogs' = catalogs
            /\ tape' = run.tape
            /\ result' = run.result
            /\ warnings' = <<>>

\* The caller takes the result; nothing of the call is kept, and the
\* module's dicts stay as the calls left them.
Forget ==
    /\ fn # ""
    /\ fn' = ""
    /\ args' = NoArguments
    /\ filters' = NoArguments
    /\ catalogs' = catalogs
    /\ tape' = <<>>
    /\ result' = Return(None, <<>>)
    /\ warnings' = <<>>

Init ==
    /\ catalogs = module_catalogs
    /\ fn = ""
    /\ args = NoArguments
    /\ filters = NoArguments
    /\ tape = <<>>
    /\ result = Return(None, <<>>)
    /\ warnings = <<>>

Next ==
    \/ GenerateNavigator
    \/ GenerateUserAgent
    \/ GenerateNavigatorJs
    \/ PickConfigIds
    \/ GetFirefoxBuild
    \/ Forget

Spec == Init /\ [][Next]_vars

(***************************************************************************)
(* The properties.  They read the compatibility matrices as sets and the   *)
(* filters as the sets of values they allow.                               *)
(***************************************************************************)
Range(seq) == {seq[i] : i \in 1..Len(seq)}

DeviceTypes == {"desktop", "smartphone", "tablet"}

OsIds == {"win", "mac", "linux", "android"}

NavigatorIds == {"chrome", "firefox", "ie"}

PublicFunctions == {"generate_navigator", "generate_user_agent", "generate_navigator_js"}

PickingFunctions == PublicFunctions \cup {"pick_config_ids"}

\* The os filter in force: platform, when given, stands for os.
OsInForce(a) == IF a.platform.kind # "None" THEN a.platform ELSE a.os

\* A filter is None, a string or a list, and each value is "all" or one of allowed.
FilterValid(f, allowed) ==
    /\ f.kind \in {"None", "str", "list"}
    /\ \A v \in Range(f.val) : v = "all" \/ v \in allowed

FiltersValid(a) ==
    /\ FilterValid(a.device_type, DeviceTypes)
    /\ FilterValid(OsInForce(a), OsIds)
    /\ FilterValid(a.navigator, NavigatorIds)

\* A filter names a value that is neither "all" nor one of allowed.
HasInvalidValue(f, allowed) ==
    /\ f.kind \in {"str", "list"}
    /\ \E v \in Range(f.val) : v # "all" /\ v \notin allowed

\* The values a valid filter allows.
ChoiceSet(f, default, allowed) ==
    IF f.kind = "None" THEN default
    ELSE IF "all" \in Range(f.val) THEN allowed
    ELSE Range(f.val)

DeviceChoiceSet(a) ==
    ChoiceSet(a.device_type,
              IF OsInForce(a).kind = "None" THEN {"desktop"} ELSE DeviceTypes,
              DeviceTypes)

\* The three compatibility checks on (device, os, navigator).
PassesChecks(v) ==
    /\ v[2] \in Range(DEVICE_TYPE_OS[v[1]])
    /\ v[3] \in Range(DEVICE_TYPE_NAVIGATOR[v[1]])
    /\ v[3] \in Range(OS_NAVIGATOR[v[2]])

\* The compatible triples of the product of the three choice sets.
CompatibleTriples(a) ==
    {v \in DeviceChoiceSet(a)
           \X ChoiceSet(OsInForce(a), OsIds, OsIds)
           \X ChoiceSet(a.navigator, NavigatorIds, NavigatorIds) : PassesChecks(v)}

\* The triple the call in the state picked, from the first outcome on its tape.
PickedIds == pick_config_ids(args.device_type, OsInForce(args), args.navigator, tape)

ConflictMessage == "Options device_type, os and navigator conflicts with each other"

\* The message of an InvalidOption names the option.
Names(msg, opt) == Contains(msg, "ption " \o opt \o " ")

\* C1: when the filters are valid and their product holds a compatible
\* triple, generate_navigator returns a record (no InvalidOption, no failed
\* assertion), and the triple it picked passes the three checks at once.
C1_ValidFiltersGenerate ==
    (fn = "generate_navigator" /\ FiltersValid(args) /\ CompatibleTriples(args) # {}) =>
        LET picked == PickedIds
        IN /\ result.exc = ""
           /\ picked.exc = ""
           /\ PassesChecks(picked.val)
           /\ result.val.os_id = picked.val[2]
           /\ result.val.navigator_id = picked.val[3]

C1_Witness ==
    /\ fn = "generate_navigator"
    /\ args = Arguments(ListFilter(<<"win", "android">>), NoFilter, NoFilter, NoFilter)
    /\ result.exc = ""
    /\ result.val.os_id = "android"
    /\ result.val.navigator_id = "chrome"

\* A filter the solver has to reject: of no accepted type, or naming an
\* invalid value.
Rejectable(f, allowed) == f.kind = "other" \/ HasInvalidValue(f, allowed)

\* C2: a call whose device_type, os or navigator filter holds a value
\* outside the axis's enumeration, as a string or as any item of a list,
\* fails with an InvalidOption whose message names an option at fault; it
\* returns no result.
C2_InvalidValueRaises ==
    (/\ fn \in PickingFunctions
     /\ \/ HasInvalidValue(args.device_type, DeviceTypes)
        \/ HasInvalidValue(OsInForce(args), OsIds)
        \/ HasInvalidValue(args.navigator, NavigatorIds)) =>
        /\ result.exc = "InvalidOption"
        /\ \/ Rejectable(args.device_type, DeviceTypes) /\ Names(result.val, "device_type")
           \/ Rejectable(OsInForce(args), OsIds) /\ Names(result.val, "os")
           \/ Rejectable(args.navigator, NavigatorIds) /\ Names(result.val, "navigator")

\* C3: when every filter value is valid and no triple of the product passes
\* the three checks, pick_config_ids and every generate_* function raise
\* InvalidOption (the filters conflict).
C3_ConflictRaises ==
    (fn \in PickingFunctions /\ FiltersValid(args) /\ CompatibleTriples(args) = {}) =>
        /\ result.exc = "InvalidOption"
        /\ result.val = ConflictMessage

C3_Witness ==
    /\ fn = "generate_user_agent"
    /\ args = Arguments(StrFilter("win"), StrFilter("firefox"), NoFilter, StrFilter("smartphone"))
    /\ result.exc = "InvalidOption"

\* The number of variants pick_config_ids draws from, on the state's arguments.
VariantCount ==
    LET first == pick_config_ids(args.device_type, args.os, args.navigator, <<>>)
    IN IF first.exc = "NeedDraw" THEN first.val[2] + 1 ELSE 0

\* C4: with device_type unset, pick_config_ids draws from the compatible
\* triples whose device is desktop when os is unset too (so the os is win,
\* mac or linux, never android) and from those of every device type when os
\* is set; os="android" alone succeeds with a smartphone or a tablet; unset
\* os and navigator stand for every value of their axis.
C4_DeviceTypeDefault ==
    (fn = "pick_config_ids" /\ args.device_type = NoFilter /\ FiltersValid(args)) =>
        /\ VariantCount = Cardinality(CompatibleTriples(args))
        /\ (args.os = NoFilter /\ result.exc = "") =>
               result.val[1] = "desktop" /\ result.val[2] \in {"win", "mac", "linux"}
        /\ (args.os = StrFilter("android") /\ args.navigator = NoFilter) =>
               /\ result.exc = ""
               /\ result.val[1] \in {"smartphone", "tablet"}
               /\ result.val[2] = "android"
        /\ result.exc = "" => result.val \in CompatibleTriples(args)

C4_Witness ==
    /\ fn = "pick_config_ids"
    /\ args = Arguments(StrFilter("android"), NoFilter, NoFilter, NoFilter)
    /\ result.exc = ""
    /\ result.val = <<"tablet", "android", "firefox">>

\* C5: on the same arguments and the same outcomes of the random source,
\* generate_user_agent returns the user_agent field of what
\* generate_navigator returns, raises what it raises, and leaves the same
\* tape (none of it).
C5_UserAgentOfNavigator ==
    fn = "generate_user_agent" =>
        LET config == generate_navigator(args.os, args.navigator, args.platform,
                                         args.device_type, tape)
        IN /\ result.exc = config.exc
           /\ result.rest = <<>>
           /\ config.rest = <<>>
           /\ result.val = IF config.exc = "" THEN config.val.user_agent ELSE config.val

C5_Witness ==
    /\ fn = "generate_user_agent"
    /\ args.device_type = StrFilter("tablet")
    /\ result.exc = ""
    /\ StartsWith(result.val, "Mozilla/5.0 (Android")

NavigatorJsKeys ==
    {"appCodeName", "appName", "appVersion", "platform", "userAgent", "oscpu",
     "product", "productSub", "vendor", "vendorSub", "buildID"}

\* C6: generate_navigator_js returns exactly the 11 navigator keys, each
\* with the value of its generate_navigator field on the same arguments and
\* outcomes, and raises InvalidOption exactly when generate_navigator does.
C6_NavigatorJsRekeys ==
    fn = "generate_navigator_js" =>
        LET config == generate_navigator(args.os, args.navigator, args.platform,
                                         args.device_type, tape)
        IN /\ result.exc = config.exc
           /\ result.exc \in {"", "InvalidOption"}
           /\ result.exc = "InvalidOption" => result.val = config.val
           /\ result.exc = "" =>
                /\ DOMAIN result.val = NavigatorJsKeys
                /\ result.val.appCodeName = config.val.app_code_name
                /\ result.val.appName = config.val.app_name
                /\ result.val.appVersion = config.val.app_version
                /\ result.val.platform = config.val.platform
                /\ result.val.userAgent = config.val.user_agent
                /\ result.val.oscpu = config.val.oscpu
                /\ result.val.product = config.val.product
                /\ result.val.productSub = config.val.product_sub
                /\ result.val.vendor = config.val.vendor
                /\ result.val.vendorSub = config.val.vendor_sub
                /\ result.val.buildID = config.val.build_id

C6_Witness ==
    /\ fn = "generate_navigator_js"
    /\ result.exc = ""
    /\ result.val.appName = "Netscape"
    /\ result.val.buildID # None
    /\ result.val.platform = "MacIntel"

\* C7: a chrome or ie record's user_agent starts with "Mozilla/5.0" and its
\* app_version is the user_agent without the leading "Mozilla/"; the
\* startswith assertion never fails.
C7_AppVersionOfHeader ==
    /\ result.exc # "AssertionError"
    /\ (fn = "generate_navigator" /\ result.exc = ""
        /\ result.val.navigator_id \in {"chrome", "ie"}) =>
            /\ StartsWith(result.val.user_agent, "Mozilla/5.0")
            /\ "Mozilla/" \o result.val.app_version = result.val.user_agent

C7_Witness ==
    /\ fn = "generate_navigator"
    /\ result.exc = ""
    /\ result.val.navigator_id = "ie"
    /\ result.val.app_version = "5.0 (Windows NT 10.0; WOW64; Trident/7.0; rv:11.0) like Gecko"

\* int(s) for a string of decimal digits.
RECURSIVE int(_)
int(s) ==
    IF s = "" THEN 0
    ELSE int(SubSeq(s, 1, Len(s) - 1)) * 10
         + (CHOOSE i \in 0..9 : Digits[i + 1] = SubSeq(s, Len(s), Len(s)))

IsTimestamp(s) ==
    /\ Len(s) = 14
    /\ \A i \in 1..14 : IsDigit(SubSeq(s, i, i))
    /\ int(SubSeq(s, 5, 6)) \in 1..12
    /\ int(SubSeq(s, 7, 8)) \in 1..31
    /\ int(SubSeq(s, 9, 10)) \in 0..23
    /\ int(SubSeq(s, 11, 12)) \in 0..59
    /\ int(SubSeq(s, 13, 14)) \in 0..59

\* The seconds from the midnight that opens year/month/day to the instant a
\* YYYYMMDDHHMMSS timestamp names.
SecondsSince(s, year, month, day) ==
    (datetime(int(SubSeq(s, 1, 4)), int(SubSeq(s, 5, 6)), int(SubSeq(s, 7, 8))).ord
        - datetime(year, month, day).ord) * SecondsPerDay
    + int(SubSeq(s, 9, 10)) * 3600 + int(SubSeq(s, 11, 12)) * 60 + int(SubSeq(s, 13, 14))

\* The row get_firefox_build drew in the state, and the length in seconds of
\* its window: to the date of the next row of the table, one day for the last.
DrawnRow == FIREFOX_VERSION[tape[1] + 1]

DrawnWindow ==
    IF tape[1] + 1 = Len(FIREFOX_VERSION) THEN SecondsPerDay
    ELSE LET next == FIREFOX_VERSION[tape[1] + 2]
         IN (datetime(next[2], next[3], next[4]).ord
             - datetime(DrawnRow[2], DrawnRow[3], DrawnRow[4]).ord) * SecondsPerDay

BuildIdOffset == SecondsSince(result.val[2], DrawnRow[2], DrawnRow[3], DrawnRow[4])

\* C8 as stated: the build id get_firefox_build returns is a 14-digit
\* timestamp t with release date <= t < release date of the next table
\* entry (release date + 1 day for the last entry).
C8_BuildIdInsideWindow ==
    (fn = "get_firefox_build" /\ result.exc = "") =>
        /\ IsTimestamp(result.val[2])
        /\ 0 <= BuildIdOffset
        /\ BuildIdOffset < DrawnWindow

\* C8 as amended: the build id is a 14-digit timestamp t of the drawn row's
\* version with release date <= t <= release date + max(w - 1, 100000)
\* seconds, w being the seconds from the release date to the date of the
\* next table entry (86400 for the last entry); t is the release date plus
\* the drawn offset, and t < the next entry's date when w >= 100001.
C8_BuildIdWithinMaxOffset ==
    (fn = "get_firefox_build" /\ result.exc = "") =>
        /\ result.val[1] = DrawnRow[1]
        /\ IsTimestamp(result.val[2])
        /\ BuildIdOffset = tape[2]
        /\ 0 <= BuildIdOffset
        /\ BuildIdOffset <= (IF DrawnWindow - 1 > 100000 THEN DrawnWindow - 1 ELSE 100000)
        /\ DrawnWindow >= 100001 => BuildIdOffset < DrawnWindow

C8_Witness ==
    /\ fn = "get_firefox_build"
    /\ result.exc = ""
    /\ DrawnWindow >= 100001
    /\ BuildIdOffset = DrawnWindow - 1

\* The macOS release drawn by a call that chose os mac, and its version.
DrawnMacRelease == OS_PLATFORM.mac[tape[3] + 1]

MacVersion(release) == SubSeq(release, Len("Macintosh; Intel Mac OS X ") + 1, Len(release))

MacBuildRanges(ver) ==
    {<<r[2], r[3]>> : r \in {x \in Range(MACOSX_CHROME_BUILD_RANGE) : x[1] = ver}}

\* C9: every release of OS_PLATFORM["mac"] has a row in
\* MACOSX_CHROME_BUILD_RANGE and the lookup never fails; a mac chrome record
\* carries, in the header's platform and in oscpu, the version with no dot,
\* as 10_<minor>_<build> with lower <= build < upper of the release's row; a
\* mac firefox record keeps the dotted 10.<minor>.
C9_MacChromePlatform ==
    /\ \A release \in Range(OS_PLATFORM.mac) :
          /\ StartsWith(release, "Macintosh; Intel Mac OS X 10.")
          /\ Cardinality(MacBuildRanges(MacVersion(release))) = 1
    /\ result.exc # "KeyError"
    /\ (fn = "generate_navigator" /\ result.exc = "" /\ result.val.os_id = "mac") =>
        LET ver == MacVersion(DrawnMacRelease)
            minor == SubSeq(ver, 4, Len(ver))
        IN /\ result.val.platform = "MacIntel"
           /\ result.val.navigator_id = "chrome" =>
                /\ ~Contains(result.val.oscpu, ".")
                /\ \E bounds \in MacBuildRanges(ver) : \E build \in bounds[1]..(bounds[2] - 1) :
                      /\ build = bounds[1] + tape[4]
                      /\ result.val.oscpu
                           = "Intel Mac OS X 10_" \o minor \o "_" \o Str(build)
                      /\ Contains(result.val.user_agent,
                                  "(Macintosh; Intel Mac OS X 10_" \o minor
                                  \o "_" \o Str(build) \o ")")
           /\ result.val.navigator_id = "firefox" =>
                /\ result.val.oscpu = "Intel Mac OS X 10." \o minor
                /\ Contains(result.val.user_agent,
                            "(Macintosh; Intel Mac OS X 10." \o minor \o "; rv:")

C9_Witness ==
    /\ fn = "generate_navigator"
    /\ result.exc = ""
    /\ result.val.navigator_id = "chrome"
    /\ result.val.oscpu = "Intel Mac OS X 10_15_6"

AndroidFirefoxTablet ==
    Arguments(StrFilter("android"), StrFilter("firefox"), NoFilter, StrFilter("tablet"))

PlatformAsOs == Arguments(args.platform, args.navigator, NoFilter, args.device_type)

OsAsPlatform == Arguments(StrFilter("win"), args.navigator, args.os, args.device_type)

\* The call F on the arguments a, given the tape t, draws outcomes it can
\* draw, leaves none of them and ends as the call in the state ended.
IsRunOf(F(_, _), a, t) ==
    LET r == F(a, t)
    IN /\ r.exc = result.exc
       /\ r.val = result.val
       /\ r.rest = <<>>

\* The function called in the state can run on a as it ran in the state.
CalledRunsOn(a) ==
    IF fn = "generate_navigator" THEN IsRunOf(call_generate_navigator, a, tape)
    ELSE IF fn = "generate_user_agent" THEN IsRunOf(call_generate_user_agent, a, tape)
    ELSE IF fn = "generate_navigator_js" THEN IsRunOf(call_generate_navigator_js, a, tape)
    ELSE IsRunOf(call_pick_config_ids, a, tape)

\* C11: a run of a generate_* call with platform set (the outcomes of the
\* random source, with the result or the InvalidOption they lead to) is a
\* run of the call with os = platform and no platform, whatever os was
\* passed alongside, and a run of a call with os set and no platform is a
\* run of the call with that os as platform; a call with platform set emits
\* the one deprecation notice, which does not make it fail, and a call with
\* platform None emits none.
C11_PlatformIsOs ==
    fn \in PublicFunctions =>
        /\ args.platform = NoFilter =>
             /\ warnings = <<>>
             /\ args.os # NoFilter => CalledRunsOn(OsAsPlatform)
        /\ args.platform # NoFilter =>
             /\ Len(warnings) = 1
             /\ Contains(warnings[1], "platform option is deprecated")
             /\ CalledRunsOn(PlatformAsOs)
             /\ result.exc \in {"", "InvalidOption"}

C11_Witness ==
    /\ fn = "generate_navigator"
    /\ args.os = StrFilter("win")
    /\ args.platform = StrFilter("android")
    /\ Len(warnings) = 1
    /\ result.exc = ""
    /\ result.val.os_id = "android"

\* A filter that holds the sentinel, as the string or as an item of a list.
HoldsAll(f) == f.kind \in {"str", "list"} /\ "all" \in Range(f.val)

\* The filter with the sentinel written out: the list of every value.
WrittenOut(f, every) == IF HoldsAll(f) THEN ListFilter(every) ELSE f

EveryDeviceType == <<"desktop", "smartphone", "tablet">>

EveryOs == <<"win", "mac", "linux", "android">>

EveryNavigator == <<"chrome", "firefox", "ie">>

ArgumentsWrittenOut ==
    Arguments(WrittenOut(args.os, EveryOs), WrittenOut(args.navigator, EveryNavigator),
              WrittenOut(args.platform, EveryOs), WrittenOut(args.device_type, EveryDeviceType))

\* get_option_choices makes of the filters f and g of an axis the same
\* choices, and rejects neither.
SameChoices(opt_name, f, g, every) ==
    LET of_f == get_option_choices(opt_name, f, every, every)
        of_g == get_option_choices(opt_name, g, every, every)
    IN /\ of_f.exc = ""
       /\ of_g.exc = ""
       /\ of_f.val = of_g.val

PickableIds ==
    {run.result.val :
        run \in {r \in Runs(call_pick_config_ids, args, <<>>, TRUE) : r.result.exc = ""}}

\* C13: on valid filters the triples pick_config_ids can return are exactly
\* the triples of the product of the three choice sets that pass the three
\* compatibility checks: each of them is the outcome of some draw, and no
\* triple outside the filters or the matrices is returned.
C13_PicksExactlyCompatible ==
    (fn = "pick_config_ids" /\ FiltersValid(args)) =>
        /\ PickableIds = CompatibleTriples(args)
        /\ result.exc = "" =>
             /\ result.val \in CompatibleTriples(args)
             /\ result.val[1] \in DeviceChoiceSet(args)
             /\ result.val[2] \in ChoiceSet(args.os, OsIds, OsIds)
             /\ result.val[3] \in ChoiceSet(args.navigator, NavigatorIds, NavigatorIds)
        /\ result.exc # "" => CompatibleTriples(args) = {}

C13_Witness ==
    /\ fn = "pick_config_ids"
    /\ args = Arguments(ListFilter(<<"win", "android">>), ListFilter(<<"ie", "firefox">>),
                        NoFilter, StrFilter("all"))
    /\ result.exc = ""
    /\ result.val = <<"smartphone", "android", "firefox">>
    /\ Cardinality(PickableIds) = 4

\* The range of the offset get_firefox_build draws once it drew the row.
OffsetRange == get_firefox_build(<<tape[1]>>)

\* C14: the window of the drawn record ends at the date of the entry after
\* it in the table (one day after its own date for the last entry), and the
\* offset is an integer drawn from 0 .. max(window seconds - 1, 100000): the
\* draw is never from an empty range, and a window shorter than 100001
\* seconds, empty or negative lets the build id be up to 100000 seconds
\* after the release date.
C14_OffsetRange ==
    fn = "get_firefox_build" =>
        /\ result.exc = ""
        /\ Len(tape) = 2
        /\ OffsetRange.exc = "NeedDraw"
        /\ OffsetRange.val[1] = 0
        /\ OffsetRange.val[2] = (IF DrawnWindow - 1 > 100000 THEN DrawnWindow - 1 ELSE 100000)
        /\ tape[2] \in OffsetRange.val[1]..OffsetRange.val[2]
        /\ BuildIdOffset = tape[2]
        /\ DrawnWindow < 100001 => OffsetRange.val[2] = 100000

\* A record whose next table entry is dated earlier, drawn with the largest
\* offset.
C14_Witness ==
    /\ fn = "get_firefox_build"
    /\ result.exc = ""
    /\ DrawnWindow < 0
    /\ tape[2] = 100000
    /\ BuildIdOffset = 100000

\* s.endswith(p)
EndsWith(s, p) == Len(s) >= Len(p) /\ SubSeq(s, Len(s) - Len(p) + 1, Len(s)) = p

\* A generate_navigator call that returned a record of the browser.
Generated(navigator_id) ==
    /\ fn = "generate_navigator"
    /\ result.exc = ""
    /\ result.val.navigator_id = navigator_id

\* C15: a chrome header ends with "Mobile Safari/537.36" exactly when the
\* chosen device type is smartphone; for desktop and tablet it ends with
\* "Chrome/<build_version> Safari/537.36", and the tablet and the desktop
\* template are the same text.
C15_MobileOnlyOnSmartphone ==
    /\ USER_AGENT_TEMPLATE.chrome_tablet = USER_AGENT_TEMPLATE.chrome
    /\ Generated("chrome") =>
        LET device_type == PickedIds.val[1]
        IN /\ device_type \in {"desktop", "smartphone", "tablet"}
           /\ EndsWith(result.val.user_agent, "Mobile Safari/537.36")
                 <=> device_type = "smartphone"
           /\ device_type \in {"desktop", "tablet"} =>
                 EndsWith(result.val.user_agent,
                          " Chrome/" \o result.val.build_version \o " Safari/537.36")

C15_Witness ==
    /\ Generated("chrome")
    /\ PickedIds.val[1] = "tablet"
    /\ EndsWith(result.val.user_agent, "(KHTML, like Gecko) Chrome/49.0.2623.0 Safari/537.36")

\* The row of IE_VERSION an ie call drew: its fourth draw, after the variant,
\* the Windows release and the cpu.
DrawnIeVersion == IE_VERSION[tape[4] + 1]

ModernIeHeader(platform) == "Mozilla/5.0 (" \o platform \o "; Trident/7.0; rv:11.0) like Gecko"

LegacyIeHeader(version, platform, trident) ==
    "Mozilla/5.0 (compatible; " \o version \o "; " \o platform \o "; Trident/" \o trident \o ")"

\* C16: for an ie record, the display version is "MSIE 11.0" exactly when
\* the header has the modern form and exactly when app_name is "Netscape";
\* for the versions 8, 9 and 10 the header has the legacy form, with the
\* Trident version of the version's row of IE_VERSION, and app_name is
\* "Microsoft Internet Explorer"; the record's os is win and its device a
\* desktop.
C16_IeFormsCoincide ==
    Generated("ie") =>
        /\ result.val.os_id = "win"
        /\ PickedIds.val[1] = "desktop"
        /\ result.val.build_version = DrawnIeVersion[2]
        /\ DrawnIeVersion[1] \in {8, 9, 10, 11}
        /\ result.val.build_version = "MSIE 11.0" <=> DrawnIeVersion[1] = 11
        /\ result.val.build_version = "MSIE 11.0"
              <=> result.val.user_agent = ModernIeHeader(result.val.platform)
        /\ result.val.build_version = "MSIE 11.0" <=> result.val.app_name = "Netscape"
        /\ result.val.build_version # "MSIE 11.0" =>
              /\ result.val.user_agent
                    = LegacyIeHeader(result.val.build_version, result.val.platform,
                                     DrawnIeVersion[3])
              /\ result.val.app_name = "Microsoft Internet Explorer"
              /\ <<result.val.build_version, DrawnIeVersion[3]>>
                    \in {<<"MSIE 8.0", "4.0">>, <<"MSIE 9.0", "5.0">>, <<"MSIE 10.0", "6.0">>}

C16_Witness ==
    /\ Generated("ie")
    /\ result.val.app_name = "Microsoft Internet Explorer"
    /\ result.val.user_agent
          = "Mozilla/5.0 (compatible; MSIE 10.0; Windows NT 10.0; WOW64; Trident/6.0)"

\* The Android release an android call drew: its second draw, after the
\* variant.
DrawnAndroidRelease == OS_PLATFORM.android[tape[2] + 1]

FirefoxTail(geckotrail, build_version) ==
    "; rv:" \o build_version \o ") Gecko/" \o geckotrail \o " Firefox/" \o build_version

\* C17: a firefox record's app_version is made of the os, not cut from the
\* header: "5.0 (Windows)" on win, "5.0 (Macintosh)" on mac, "5.0 (X11)" on
\* linux and "5.0 (<release>)" on android, <release> being the Android
\* release that opens the header's platform; the header's Gecko trail is
\* "20100101" on win, mac and linux and the sampled Firefox build version on
\* android.
C17_FirefoxAppVersion ==
    Generated("firefox") =>
        /\ result.val.os_id \in {"win", "mac", "linux", "android"}
        /\ "Mozilla/" \o result.val.app_version # result.val.user_agent
        /\ result.val.os_id = "win" => result.val.app_version = "5.0 (Windows)"
        /\ result.val.os_id = "mac" => result.val.app_version = "5.0 (Macintosh)"
        /\ result.val.os_id = "linux" => result.val.app_version = "5.0 (X11)"
        /\ result.val.os_id \in {"win", "mac", "linux"} =>
              EndsWith(result.val.user_agent, FirefoxTail("20100101", result.val.build_version))
        /\ result.val.os_id = "android" =>
              /\ StartsWith(DrawnAndroidRelease, "Android ")
              /\ result.val.app_version = "5.0 (" \o DrawnAndroidRelease \o ")"
              /\ StartsWith(result.val.user_agent, "Mozilla/5.0 (" \o DrawnAndroidRelease \o "; ")
              /\ EndsWith(result.val.user_agent,
                          FirefoxTail(result.val.build_version, result.val.build_version))

C17_Witness ==
    /\ Generated("firefox")
    /\ result.val.app_version = "5.0 (Android 11)"
    /\ result.val.build_version = "0.9"
    /\ result.val.user_agent = "Mozilla/5.0 (Android 11; Mobile; rv:0.9) Gecko/0.9 Firefox/0.9"

\* The range of the third draw of the call in the state: the draw of the
\* device model, for android with chrome.
DeviceModelRange ==
    generate_navigator(args.os, args.navigator, args.platform, args.device_type,
                       SubSeq(tape, 1, 2)).val

TablesAgree ==
    /\ DOMAIN DEVICE_TYPE_OS = DeviceTypes
    /\ DOMAIN DEVICE_TYPE_NAVIGATOR = DeviceTypes
    /\ DOMAIN OS_DEVICE_TYPE = OsIds
    /\ DOMAIN OS_NAVIGATOR = OsIds
    /\ DOMAIN NAVIGATOR_DEVICE_TYPE = NavigatorIds
    /\ DOMAIN NAVIGATOR_OS = NavigatorIds
    /\ \A d \in DeviceTypes : \A os \in OsIds :
          os \in Range(DEVICE_TYPE_OS[d]) <=> d \in Range(OS_DEVICE_TYPE[os])
    /\ \A d \in DeviceTypes : \A n \in NavigatorIds :
          n \in Range(DEVICE_TYPE_NAVIGATOR[d]) <=> d \in Range(NAVIGATOR_DEVICE_TYPE[n])
    /\ \A os \in OsIds : \A n \in NavigatorIds :
          n \in Range(OS_NAVIGATOR[os]) <=> os \in Range(NAVIGATOR_OS[n])
    /\ \A os \in OsIds :
          /\ os \in DOMAIN OS_PLATFORM /\ OS_PLATFORM[os] # <<>>
          /\ os \in DOMAIN OS_CPU /\ OS_CPU[os] # <<>>
    /\ \A v \in DeviceTypes \X OsIds \X NavigatorIds :
          (compatible(v) /\ v[2] = "android") =>
              v[3] \in {"firefox", "chrome"} /\ v[1] \in {"smartphone", "tablet"}

\* C19: the compatibility tables agree: os is in DEVICE_TYPE_OS[d] exactly
\* when d is in OS_DEVICE_TYPE[os], n in DEVICE_TYPE_NAVIGATOR[d] exactly
\* when d is in NAVIGATOR_DEVICE_TYPE[n], n in OS_NAVIGATOR[os] exactly when
\* os is in NAVIGATOR_OS[n]; every os has entries in OS_PLATFORM and OS_CPU;
\* a triple with os android that passes the three tests of pick_config_ids
\* has navigator firefox or chrome and device smartphone or tablet, and so
\* has every triple a call picked.
C19_TablesAgree ==
    /\ fn = "" => TablesAgree
    /\ (fn \in PickingFunctions /\ result.exc = "") =>
          LET ids == PickedIds.val
          IN ids[2] = "android" =>
                /\ ids[3] \in {"firefox", "chrome"}
                /\ ids[1] \in {"smartphone", "tablet"}

C19_Witness ==
    /\ fn = "pick_config_ids"
    /\ args = Arguments(StrFilter("all"), StrFilter("all"), NoFilter, StrFilter("all"))
    /\ result.exc = ""
    /\ result.val = <<"smartphone", "android", "chrome">>

====
